---- MODULE Spec2Model ----
(***************************************************************************)
(* A model of blockbench's addon lifecycle engine: the world config store, *)
(* the pack store (minecraft.Server), the backup manager, the installer    *)
(* and uninstaller pipelines, the archive extractor's path policy and the  *)
(* dependency analyzer.                                                    *)
(*                                                                         *)
(* The server directory is one record, srv:                                *)
(*   srv.world  the four files of the world directory (two world configs,  *)
(*              two history files), each a file content                    *)
(*   srv.bp     the pack directories under development_behavior_packs      *)
(*   srv.rp     the pack directories under development_resource_packs      *)
(*   srv.bak    the backup directories under the backup root, by backup ID *)
(*   srv.meta   the backup metadata files <backup-root>/<id>.json          *)
(* Every operation is a pure operator from a server (and the outcomes the  *)
(* environment chooses for its I/O) to the server afterwards and a result. *)
(***************************************************************************)
EXTENDS Integers, Sequences, FiniteSets, TLC

\* The number of administrative calls in one behaviour.
MaxOps == 1

\* The number of InstallPack and UninstallPack calls made on the pack store
\* on its own.
MaxStoreOps == 2
MaxConfigOps == 3
MaxExtra == 1
MaxNormalize == 2
MaxModules == 2
MaxManifestDeps == 1

\* The number of source paths handed to one CreateBackup, and the number of
\* changes made to the live paths between the backup and its restore.
MaxListed == 2
MaxEdits == 2

\* The number of path segments of an archive entry name.
MaxSegs == 3

\* The number of entries of an archive.
MaxEntries == 2

\* The number of dependency entries the installed packs of a dependency graph
\* declare in all.
MaxDeps == 3

---------------------------------------------------------------------------
(* Manifests.  A manifest is reduced to what the engine reads: the header  *)
(* UUID, name and version, the pack type its modules give, and the pack    *)
(* UUIDs of its dependency entries, in order.                              *)

Mf(u, n, v, t, d) == [uuid |-> u, name |-> n, version |-> v, type |-> t, deps |-> d]

NoManifest == Mf("", "", <<0, 0, 0>>, "unknown", <<>>)

PackA1 == Mf("u1", "A", <<1, 0, 0>>, "behavior", <<>>)
PackA2 == Mf("u1", "A", <<2, 0, 0>>, "behavior", <<>>)
PackB == Mf("u2", "B", <<1, 0, 0>>, "behavior", <<"u1">>)
PackC == Mf("u3", "C", <<1, 0, 0>>, "resource", <<"u2">>)
PackD == Mf("u4", "", <<1, 0, 0>>, "resource", <<"u1">>)
\* A resource pack that carries the UUID of the behavior pack A.
PackE == Mf("u1", "A", <<3, 0, 0>>, "resource", <<>>)

\* The addons offered to InstallAddon: the packs found in the extracted archive.
Addons == { <<>>, <<PackA1>>, <<PackA2>>, <<PackB>>, <<PackC>>, <<PackD>>, <<PackE>>,
            <<PackA1, PackB>>, <<PackC, PackA2>> }

UUIDs == {"u1", "u2", "u3", "u4"}

\* validation.GetSafeUUIDPrefix: the 8-character short form of a UUID.  The
\* UUIDs of the model stand for UUIDs with pairwise distinct prefixes.
GetSafeUUIDPrefix(uuid) == uuid

\* Manifest.GetDisplayName
GetDisplayName(m) == IF m.name # "" THEN m.name ELSE "Pack-" \o m.uuid

\* The directory name InstallPack gives a pack.
PackDirName(m) == GetDisplayName(m) \o "_" \o GetSafeUUIDPrefix(m.uuid)

---------------------------------------------------------------------------
(* World config store (internal/minecraft/config.go).                      *)

\* An in-memory WorldConfig: a Go slice, nil or not, and its entries.
Cfg(isNil, es) == [nil |-> isNil, entries |-> es]

PackReference(id, v) == [pack_id |-> id, version |-> v]

\* File contents of a world config file.
Absent == [kind |-> "absent", nil |-> FALSE, entries |-> <<>>]
Corrupt == [kind |-> "corrupt", nil |-> FALSE, entries |-> <<>>]

\* json.MarshalIndent of a WorldConfig: "null" for a nil slice, an array otherwise.
JsonFile(config) == [kind |-> "json", nil |-> config.nil, entries |-> config.entries]

\* A load that reports a missing file as a read error.
LoadWorldConfig_AbsentIsError(content) ==
    IF content.kind \in {"absent", "corrupt"} THEN [err |-> TRUE, config |-> Cfg(TRUE, <<>>)]
    ELSE [err |-> FALSE, config |-> Cfg(content.nil, content.entries)]

\* A load that turns the JSON null into an empty, non-nil slice.
LoadWorldConfig_NullAsEmpty(content) ==
    IF content.kind = "absent" THEN [err |-> FALSE, config |-> Cfg(FALSE, <<>>)]
    ELSE IF content.kind = "corrupt" THEN [err |-> TRUE, config |-> Cfg(TRUE, <<>>)]
    ELSE [err |-> FALSE, config |-> Cfg(FALSE, content.entries)]

\* LoadWorldConfig
LoadWorldConfig(content) ==
    IF content.kind = "absent" THEN [err |-> FALSE, config |-> Cfg(FALSE, <<>>)]
    ELSE IF content.kind = "corrupt" THEN [err |-> TRUE, config |-> Cfg(TRUE, <<>>)]
    ELSE [err |-> FALSE, config |-> Cfg(content.nil, content.entries)]

\* The outcomes of one os.WriteFile of a config file.
SaveOutcomes == {"ok", "fail_untouched", "fail_torn"}

\* SaveWorldConfig: os.WriteFile(filePath, data, 0644) truncates the file at
\* <path> and writes into it; a write that fails partway leaves a torn file.
SaveWorldConfig(old, config, outcome) ==
    IF outcome = "ok" THEN [err |-> FALSE, content |-> JsonFile(config)]
    ELSE IF outcome = "fail_untouched" THEN [err |-> TRUE, content |-> old]
    ELSE [err |-> TRUE, content |-> Corrupt]

IndexOf(es, packID) ==
    IF \E i \in 1..Len(es) : es[i].pack_id = packID
    THEN CHOOSE i \in 1..Len(es) :
            /\ es[i].pack_id = packID
            /\ \A j \in 1..(i - 1) : es[j].pack_id # packID
    ELSE 0

\* A replacement that moves the entry to the end instead of updating in place.
AddPackToConfig_MoveToEnd(config, packID, version) ==
    Cfg(FALSE, Append(SelectSeq(config.entries, LAMBDA e : e.pack_id # packID),
                      PackReference(packID, version)))

\* AddPackToConfig
AddPackToConfig(config, packID, version) ==
    LET i == IndexOf(config.entries, packID)
    IN  IF i # 0
        THEN Cfg(config.nil, [config.entries EXCEPT ![i].version = version])
        ELSE Cfg(FALSE, Append(config.entries, PackReference(packID, version)))

\* A removal that stops at the first entry with the UUID.
RemovePackFromConfig_FirstOnly(config, packID) ==
    LET i == IndexOf(config.entries, packID)
        kept == IF i = 0 THEN config.entries
                ELSE SubSeq(config.entries, 1, i - 1)
                     \o SubSeq(config.entries, i + 1, Len(config.entries))
    IN  Cfg(kept = <<>>, kept)

\* RemovePackFromConfig: the result slice stays nil when nothing is kept.
RemovePackFromConfig(config, packID) ==
    LET kept == SelectSeq(config.entries, LAMBDA e : e.pack_id # packID)
    IN  Cfg(kept = <<>>, kept)

\* WorldConfig.HasPack
HasPack(config, packID) == IndexOf(config.entries, packID) # 0

\* WorldConfig.GetPack: a copy of the first matching entry.
GetPack(config, packID) == config.entries[IndexOf(config.entries, packID)]

---------------------------------------------------------------------------
(* The server directory.                                                   *)

WorldBehaviorPacks == "world_behavior_packs.json"
WorldResourcePacks == "world_resource_packs.json"
WorldBehaviorHistory == "world_behavior_pack_history.json"
WorldResourceHistory == "world_resource_pack_history.json"
WorldFiles == {WorldBehaviorPacks, WorldResourcePacks, WorldBehaviorHistory,
               WorldResourceHistory}

\* A path of the server directory: a file of the world directory, or a pack
\* directory under one of the two pack roots.
Path(root, name) == [root |-> root, name |-> name]

\* A pack directory: the manifest.json it holds (NoManifest when it has none)
\* and whether the whole pack was copied.
Dir(m, st) == [kind |-> "dir", man |-> m, state |-> st]

NoDirs == [d \in {} |-> Dir(NoManifest, "complete")]

EmptyServer(content) ==
    [world |-> [f \in WorldFiles |->
                   IF f \in {WorldBehaviorPacks, WorldResourcePacks}
                   THEN content ELSE Absent],
     bp |-> NoDirs, rp |-> NoDirs, bak |-> <<>>, meta |-> <<>>]

PathExists(s, p) ==
    IF p.root = "world" THEN s.world[p.name].kind # "absent"
    ELSE p.name \in DOMAIN s[p.root]

ReadPath(s, p) == IF p.root = "world" THEN s.world[p.name] ELSE s[p.root][p.name]

Without(f, k) == [x \in DOMAIN f \ {k} |-> f[x]]

With(f, k, v) == (k :> v) @@ f

\* os.RemoveAll(path)
RemovePath(s, p) ==
    IF p.root = "world" THEN [s EXCEPT !.world[p.name] = Absent]
    ELSE [s EXCEPT ![p.root] = Without(@, p.name)]

WritePath(s, p, c) ==
    IF p.root = "world" THEN [s EXCEPT !.world[p.name] = c]
    ELSE [s EXCEPT ![p.root] = With(@, p.name, c)]

PacksDir(type) == IF type = "behavior" THEN "bp" ELSE "rp"

ConfigFile(type) == IF type = "behavior" THEN WorldBehaviorPacks ELSE WorldResourcePacks

\* The order in which os.ReadDir lists directory names (sorted by name).
NameOrder == <<"A_U1", "A_u1", "B_u2", "C_u3", "Pack-u4_u4">>

NameRank(n) == CHOOSE i \in 1..Len(NameOrder) : NameOrder[i] = n

\* Server.loadPackManifest / FindAndLoadManifestByUUID / findPackDirectory:
\* the first directory, in ReadDir order, whose manifest.json has the UUID.
MatchingDirs(dirs, packID) ==
    {d \in DOMAIN dirs : dirs[d].man # NoManifest /\ dirs[d].man.uuid = packID}

FirstMatchingDir(dirs, packID) ==
    CHOOSE d \in MatchingDirs(dirs, packID) :
        \A e \in MatchingDirs(dirs, packID) : NameRank(d) <= NameRank(e)

loadPackManifest(dirs, packID) ==
    IF MatchingDirs(dirs, packID) = {} THEN [err |-> TRUE, man |-> NoManifest]
    ELSE [err |-> FALSE, man |-> dirs[FirstMatchingDir(dirs, packID)].man]

InstalledPack(ref, type, dirs) ==
    LET l == loadPackManifest(dirs, ref.pack_id)
    IN  [PackID |-> ref.pack_id, Version |-> ref.version, Type |-> type,
         Name |-> IF l.err THEN "" ELSE GetDisplayName(l.man)]

MapSeq(sq, Op(_)) == [i \in 1..Len(sq) |-> Op(sq[i])]

\* Server.ListInstalledPacks: the entries of the behavior config, then those of
\* the resource config, each enriched from the manifest on disk when there is one.
ListInstalledPacks(s) ==
    LET b == LoadWorldConfig(s.world[WorldBehaviorPacks])
        r == LoadWorldConfig(s.world[WorldResourcePacks])
    IN  IF b.err \/ r.err THEN [err |-> TRUE, packs |-> <<>>]
        ELSE [err |-> FALSE,
              packs |-> MapSeq(b.config.entries,
                               LAMBDA e : InstalledPack(e, "behavior", s.bp))
                        \o MapSeq(r.config.entries,
                                  LAMBDA e : InstalledPack(e, "resource", s.rp))]

InstalledUUIDs(s) ==
    LET l == ListInstalledPacks(s) IN {l.packs[i].PackID : i \in 1..Len(l.packs)}

---------------------------------------------------------------------------
(* Pack store (minecraft.Server).                                          *)

\* The outcomes of copyDir(src, dst): done; failed before anything was written;
\* failed after creating the directory but before manifest.json was written;
\* failed after manifest.json was written.
CopyOutcomes == {"ok", "fail_none", "fail_partial", "fail_manifest"}

\* copyDir of an extracted pack into <packs root>/<dirname>.  An existing
\* directory is written into, file by file.
copyDir(s, m, outcome) ==
    LET p == Path(PacksDir(m.type), PackDirName(m))
        old == IF PathExists(s, p) THEN ReadPath(s, p).man ELSE NoManifest
    IN  IF outcome = "ok" THEN [err |-> FALSE, srv |-> WritePath(s, p, Dir(m, "complete"))]
        ELSE IF outcome = "fail_none" THEN [err |-> TRUE, srv |-> s]
        ELSE IF outcome = "fail_partial"
             THEN [err |-> TRUE, srv |-> WritePath(s, p, Dir(old, "partial"))]
        ELSE [err |-> TRUE, srv |-> WritePath(s, p, Dir(m, "partial"))]

\* What the environment decides for one InstallPack: the config save, the
\* directory copy, and the save that rolls the config back.
PackEnv(save, copy, rbsave) == [save |-> save, copy |-> copy, rbsave |-> rbsave]

PackOk == PackEnv("ok", "ok", "ok")

\* Server.InstallPack: config first, files second, config rolled back when the
\* copy fails.
InstallPack(s, m, env) ==
    LET cf == ConfigFile(m.type)
        l == LoadWorldConfig(s.world[cf])
    IN  IF m.type \notin {"behavior", "resource"} THEN [srv |-> s, err |-> "unknown pack type"]
        ELSE IF l.err THEN [srv |-> s, err |-> "load"]
        ELSE
        LET packExisted == HasPack(l.config, m.uuid)
            config == AddPackToConfig(l.config, m.uuid, m.version)
            sv == SaveWorldConfig(s.world[cf], config, env.save)
            s1 == [s EXCEPT !.world[cf] = sv.content]
            cp == copyDir(s1, m, env.copy)
            removed == RemovePackFromConfig(config, m.uuid)
            rollbackConfig ==
                IF packExisted
                THEN LET originalPack == GetPack(l.config, m.uuid)
                     IN  AddPackToConfig(removed, originalPack.pack_id, originalPack.version)
                ELSE removed
            rb == SaveWorldConfig(cp.srv.world[cf], rollbackConfig, env.rbsave)
        IN  IF sv.err THEN [srv |-> s1, err |-> "save"]
            ELSE IF cp.err
                 THEN [srv |-> [cp.srv EXCEPT !.world[cf] = rb.content], err |-> "copy"]
            ELSE [srv |-> cp.srv, err |-> ""]

\* The outcomes of os.RemoveAll of a pack directory.
RemoveOutcomes == {"ok", "fail_untouched", "fail_partial"}

\* Server.removePackDir
removePackDir(s, root, packID, outcome) ==
    IF MatchingDirs(s[root], packID) = {} THEN [err |-> TRUE, srv |-> s]
    ELSE LET p == Path(root, FirstMatchingDir(s[root], packID))
         IN  IF outcome = "ok" THEN [err |-> FALSE, srv |-> RemovePath(s, p)]
             ELSE IF outcome = "fail_untouched" THEN [err |-> TRUE, srv |-> s]
             ELSE [err |-> TRUE, srv |-> WritePath(s, p, Dir(NoManifest, "partial"))]

UninstallEnv(save, rm, rbsave) == [save |-> save, rm |-> rm, rbsave |-> rbsave]

UninstallOk == UninstallEnv("ok", "ok", "ok")

\* A removal from one config and pack root that leaves the config as saved
\* when the directory removal fails.
uninstallFrom_NoRollback(s, type, config, packID, env) ==
    LET cf == ConfigFile(type)
        sv == SaveWorldConfig(s.world[cf], RemovePackFromConfig(config, packID), env.save)
        s1 == [s EXCEPT !.world[cf] = sv.content]
        rm == removePackDir(s1, PacksDir(type), packID, env.rm)
    IN  IF sv.err THEN [srv |-> s1, err |-> "save"]
        ELSE IF rm.err THEN [srv |-> rm.srv, err |-> "remove"]
        ELSE [srv |-> rm.srv, err |-> ""]

\* UninstallPack on the config and the pack root of one type: the entry is
\* removed and saved, the directory removed, the loaded config saved again
\* when the removal fails.
uninstallFrom(s, type, config, packID, env) ==
    LET cf == ConfigFile(type)
        sv == SaveWorldConfig(s.world[cf], RemovePackFromConfig(config, packID), env.save)
        s1 == [s EXCEPT !.world[cf] = sv.content]
        rm == removePackDir(s1, PacksDir(type), packID, env.rm)
        rb == SaveWorldConfig(rm.srv.world[cf], config, env.rbsave)
    IN  IF sv.err THEN [srv |-> s1, err |-> "save"]
        ELSE IF rm.err
             THEN [srv |-> [rm.srv EXCEPT !.world[cf] = rb.content], err |-> "remove"]
        ELSE [srv |-> rm.srv, err |-> ""]

\* Server.UninstallPack: the behavior config is tried first, then the resource
\* config.
UninstallPack(s, packID, env) ==
    LET b == LoadWorldConfig(s.world[WorldBehaviorPacks])
        r == LoadWorldConfig(s.world[WorldResourcePacks])
    IN  IF b.err THEN [srv |-> s, err |-> "load"]
        ELSE IF HasPack(b.config, packID)
             THEN uninstallFrom(s, "behavior", b.config, packID, env)
        ELSE IF r.err THEN [srv |-> s, err |-> "load"]
        ELSE IF HasPack(r.config, packID)
             THEN uninstallFrom(s, "resource", r.config, packID, env)
        ELSE [srv |-> s, err |-> "not installed"]

---------------------------------------------------------------------------
(* Backup manager (pkg/filesystem and internal/addon).                     *)

\* One basename of a backup directory: whether <basename>.missing is there,
\* and the copy stored under <basename>, if any.
NoCopy == [kind |-> "none"]

BackupEntry(marker, copy) == [marker |-> marker, copy |-> copy]

EntryOf(bdir, name) ==
    IF name \in DOMAIN bdir THEN bdir[name] ELSE BackupEntry(FALSE, NoCopy)

\* BackupManager.backupFile
backupFile(s, p, bdir) ==
    LET e == EntryOf(bdir, p.name)
    IN  IF ~PathExists(s, p) THEN With(bdir, p.name, BackupEntry(TRUE, e.copy))
        ELSE With(bdir, p.name, BackupEntry(e.marker, ReadPath(s, p)))

RECURSIVE backupFiles(_, _, _)
backupFiles(s, files, bdir) ==
    IF files = <<>> THEN bdir
    ELSE backupFiles(s, Tail(files), backupFile(s, Head(files), bdir))

BackupOutcomes == {"ok", "fail_mkdir", "fail_copy", "fail_meta"}

\* BackupManager.CreateBackup, with the backup ID generateBackupID derives from
\* the clock (backup_<unix seconds>).
CreateBackup(s, id, operation, files, outcome) ==
    LET before == IF id \in DOMAIN s.bak THEN s.bak[id] ELSE <<>>
        metadata == [ID |-> id, Operation |-> operation, Files |-> files]
    IN  IF outcome = "fail_mkdir" THEN [err |-> TRUE, srv |-> s, id |-> 0]
        ELSE IF outcome \in {"fail_copy", "fail_meta"}
             THEN [err |-> TRUE, srv |-> [s EXCEPT !.bak = Without(@, id)], id |-> 0]
        ELSE [err |-> FALSE,
              srv |-> [s EXCEPT !.bak = With(@, id, backupFiles(s, files, before)),
                                !.meta = With(@, id, metadata)],
              id |-> id]

\* BackupManager.restoreFile
restoreFile(s, p, bdir) ==
    LET e == EntryOf(bdir, p.name)
    IN  IF e.marker
        THEN [err |-> FALSE, srv |-> IF PathExists(s, p) THEN RemovePath(s, p) ELSE s]
        ELSE IF e.copy = NoCopy THEN [err |-> TRUE, srv |-> s]
        ELSE [err |-> FALSE, srv |-> WritePath(s, p, e.copy)]

RECURSIVE restoreFiles(_, _, _)
restoreFiles(s, files, bdir) ==
    IF files = <<>> THEN [err |-> FALSE, srv |-> s]
    ELSE LET r == restoreFile(s, Head(files), bdir)
         IN  IF r.err THEN r ELSE restoreFiles(r.srv, Tail(files), bdir)

RestoreOutcomes == {"ok", "fail"}

\* BackupManager.RestoreBackup: the metadata is loaded by ID, then every listed
\* path is restored from the backup directory.
RestoreBackup(s, id, outcome) ==
    IF outcome # "ok" \/ id \notin DOMAIN s.meta THEN [err |-> TRUE, srv |-> s]
    ELSE restoreFiles(s, s.meta[id].Files,
                      IF id \in DOMAIN s.bak THEN s.bak[id] ELSE <<>>)

ConfigAndHistoryFiles ==
    << Path("world", WorldBehaviorPacks), Path("world", WorldResourcePacks),
       Path("world", WorldBehaviorHistory), Path("world", WorldResourceHistory) >>

\* addon.BackupManager.CreateInstallBackup: the two world configs and the two
\* history files.
CreateInstallBackup(s, id, outcome) ==
    CreateBackup(s, id, "install", ConfigAndHistoryFiles, outcome)

\* addon.BackupManager.findAddonDirectories
findAddonDirectories(s, addonUUID) ==
    (IF MatchingDirs(s.bp, addonUUID) = {} THEN <<>>
     ELSE << Path("bp", FirstMatchingDir(s.bp, addonUUID)) >>)
    \o (IF MatchingDirs(s.rp, addonUUID) = {} THEN <<>>
        ELSE << Path("rp", FirstMatchingDir(s.rp, addonUUID)) >>)

\* addon.BackupManager.CreateUninstallBackup: the same files and the pack
\* directories of the addon; it fails when the addon has no directory.
CreateUninstallBackup(s, id, addonUUID, outcome) ==
    LET dirs == findAddonDirectories(s, addonUUID)
    IN  IF dirs = <<>> THEN [err |-> TRUE, srv |-> s, id |-> 0]
        ELSE CreateBackup(s, id, "uninstall", ConfigAndHistoryFiles \o dirs, outcome)

---------------------------------------------------------------------------
(* Installer (internal/addon/installer.go).                                *)

\* An InstallResult / UninstallResult, and the error the call returns beside
\* it ("" for nil).  Packs holds InstalledPacks or RemovedPacks; Backup is the
\* ID of BackupMetadata, 0 when there is none.
EmptyResult ==
    [Success |-> FALSE, err |-> "", Errors |-> <<>>, Warnings |-> <<>>,
     Packs |-> <<>>, Backup |-> 0]

Warning(kind, name, uuid) == [kind |-> kind, name |-> name, uuid |-> uuid]

AddError(res, e) == [res EXCEPT !.Errors = Append(@, e)]

Returned(s, res, e) == [srv |-> s, result |-> [res EXCEPT !.err = e]]

\* ExtractedAddon.GetAllPacks: the behavior packs, then the resource packs.
GetAllPacks(addon) ==
    SelectSeq(addon, LAMBDA m : m.type = "behavior")
    \o SelectSeq(addon, LAMBDA m : m.type = "resource")

RECURSIVE Flatten(_)
Flatten(ss) == IF ss = <<>> THEN <<>> ELSE Head(ss) \o Flatten(Tail(ss))

\* A conflict check that finds nothing.
checkForConflicts_None(s, addon) ==
    [err |-> ListInstalledPacks(s).err, conflicts |-> <<>>]

\* Installer.checkForConflicts: one conflict for every pair of an incoming pack
\* and an installed pack with the same UUID.
checkForConflicts(s, addon) ==
    LET l == ListInstalledPacks(s)
        of(m) == MapSeq(SelectSeq(l.packs, LAMBDA ip : ip.PackID = m.uuid),
                        LAMBDA ip : Warning("conflict", ip.Name, ip.PackID))
    IN  IF l.err THEN [err |-> TRUE, conflicts |-> <<>>]
        ELSE [err |-> FALSE, conflicts |-> Flatten(MapSeq(GetAllPacks(addon), of))]

\* A dependency check that finds nothing missing.
validateDependencies_None(s, addon) ==
    [err |-> ListInstalledPacks(s).err, missing |-> <<>>]

\* Installer.validateDependencies: every pack-UUID dependency of an incoming
\* pack must be an installed pack or an incoming pack.
validateDependencies(s, addon) ==
    LET l == ListInstalledPacks(s)
        packs == GetAllPacks(addon)
        installedUUIDs == InstalledUUIDs(s) \cup {packs[i].uuid : i \in 1..Len(packs)}
        of(m) == MapSeq(SelectSeq(m.deps, LAMBDA d : d # "" /\ d \notin installedUUIDs),
                        LAMBDA d : Warning("missing_dep", GetDisplayName(m), d))
    IN  IF l.err THEN [err |-> TRUE, missing |-> <<>>]
        ELSE [err |-> FALSE, missing |-> Flatten(MapSeq(packs, of))]

\* Installer.installPacks: the packs in order, stopping at the first failure.
\* The environment's outcomes penv apply to pack number failPack.
RECURSIVE installPacksFrom(_, _, _, _, _)
installPacksFrom(s, packs, i, failPack, penv) ==
    IF i > Len(packs) THEN [srv |-> s, err |-> ""]
    ELSE LET r == InstallPack(s, packs[i], IF i = failPack THEN penv ELSE PackOk)
         IN  IF r.err # "" THEN r
             ELSE installPacksFrom(r.srv, packs, i + 1, failPack, penv)

installPacks(s, addon, failPack, penv) ==
    installPacksFrom(s, GetAllPacks(addon), 1, failPack, penv)

\* Installer.postInstallValidation
postInstallValidation(s, addon) ==
    LET l == ListInstalledPacks(s)
        packs == GetAllPacks(addon)
    IN  IF l.err THEN "list"
        ELSE IF \E i \in 1..Len(packs) : packs[i].uuid \notin InstalledUUIDs(s)
             THEN "not found"
        ELSE ""

\* What the environment decides for one InstallAddon:
\*   abortAt   the prompt (showStepResult) at which the operator answers no;
\*             0 when the call is not interactive or every answer is yes.
\*             Prompts 1..4 follow pre-validation, extraction, content
\*             validation and conflict detection; 5..7 follow backup creation,
\*             pack installation and post-validation (in a dry run: the three
\*             simulation prompts)
\*   sameSecond  the backup is created in the same second as the previous one
\*   backup    the outcome of CreateBackup
\*   failPack, pack   the pack whose InstallPack meets the outcomes pack
\*   restore   the outcome of RestoreBackup
InstallEnv(abortAt, sameSecond, backup, failPack, pack, restore) ==
    [abortAt |-> abortAt, sameSecond |-> sameSecond, backup |-> backup,
     failPack |-> failPack, pack |-> pack, restore |-> restore]

InstallOptions(dryRun, force) == [DryRun |-> dryRun, ForceUpdate |-> force]

PackNames(addon) == MapSeq(GetAllPacks(addon), GetDisplayName)

\* A simulation that installs the packs.
performDryRunSimulation_Mutating(s, addon, conflicts, env) ==
    Returned(installPacks(s, addon, 0, PackOk).srv,
             [EmptyResult EXCEPT !.Warnings = conflicts, !.Packs = PackNames(addon),
                                 !.Success = TRUE], "")

\* Installer.performDryRunSimulation: a fresh result with the conflict
\* warnings, the three simulation prompts, and the names of the packs.
performDryRunSimulation(s, addon, conflicts, env) ==
    LET res == [EmptyResult EXCEPT !.Warnings = conflicts]
    IN  IF env.abortAt = 5 THEN Returned(s, res, "aborted")
        ELSE IF env.abortAt \in {6, 7}
             THEN Returned(s, [res EXCEPT !.Packs = PackNames(addon)], "aborted")
        ELSE Returned(s, [res EXCEPT !.Packs = PackNames(addon), !.Success = TRUE], "")

\* The rollback of InstallAddon: RestoreBackup, its failure added to Errors.
rollbackInstall(s, res, id, env) ==
    LET r == RestoreBackup(s, id, env.restore)
    IN  [srv |-> r.srv,
         result |-> IF r.err THEN AddError(res, "Rollback failed") ELSE res]

\* A post-validation step that restores the backup whatever the validation says.
installVerify_RestoreAlways(s, res, addon, id, env) ==
    LET rb == rollbackInstall(s, res, id, env)
    IN  Returned(rb.srv, [rb.result EXCEPT !.Packs = PackNames(addon), !.Success = TRUE], "")

\* InstallAddon from step 7: post-installation validation, rollback when it
\* fails, the last prompt, success.
installVerify(s, res, addon, id, env) ==
    LET v == postInstallValidation(s, addon)
        rb == rollbackInstall(s, res, id, env)
    IN  IF v # ""
        THEN Returned(rb.srv, AddError(rb.result, "Post-installation validation failed"), v)
        ELSE IF env.abortAt = 7 THEN Returned(s, res, "aborted")
        ELSE Returned(s, [res EXCEPT !.Packs = PackNames(addon), !.Success = TRUE], "")

\* An installation step that returns the rollback's error in place of its own
\* when the rollback fails.
installApply_RollbackErrorOnly(s, res, addon, id, env) ==
    LET ip == installPacks(s, addon, env.failPack, env.pack)
        rb == rollbackInstall(ip.srv, res, id, env)
    IN  IF ip.err # "" /\ rb.result # res
        THEN Returned(rb.srv, rb.result, "rollback")
        ELSE IF ip.err # ""
        THEN Returned(rb.srv, AddError(rb.result, "Installation failed"), ip.err)
        ELSE IF env.abortAt = 6 THEN Returned(ip.srv, res, "aborted")
        ELSE installVerify(ip.srv, res, addon, id, env)

\* InstallAddon from step 6: install the packs, rollback when one fails, the
\* prompt, then post-validation.
installApply(s, res, addon, id, env) ==
    LET ip == installPacks(s, addon, env.failPack, env.pack)
        rb == rollbackInstall(ip.srv, res, id, env)
    IN  IF ip.err # ""
        THEN Returned(rb.srv, AddError(rb.result, "Installation failed"), ip.err)
        ELSE IF env.abortAt = 6 THEN Returned(ip.srv, res, "aborted")
        ELSE installVerify(ip.srv, res, addon, id, env)

\* InstallAddon from step 5: the backup, the prompt, then the installation.
installBackup(s, res, addon, id, env) ==
    LET b == CreateInstallBackup(s, id, env.backup)
        res1 == [res EXCEPT !.Backup = b.id]
    IN  IF b.err THEN Returned(b.srv, AddError(res, "Backup creation failed"), "backup")
        ELSE IF env.abortAt = 5 THEN Returned(b.srv, res1, "aborted")
        ELSE installApply(b.srv, res1, addon, id, env)

\* Installer.InstallAddon.  id is the backup ID the clock gives this call.
InstallAddon(s, id, addon, options, env) ==
    LET c == checkForConflicts(s, addon)
        d == validateDependencies(s, addon)
        res == [EmptyResult EXCEPT !.Warnings = d.missing]
    IN  IF env.abortAt \in {1, 2} THEN Returned(s, EmptyResult, "aborted")
        ELSE IF GetAllPacks(addon) = <<>>
             THEN Returned(s, AddError(EmptyResult, "Content validation failed"), "no packs")
        ELSE IF env.abortAt = 3 THEN Returned(s, EmptyResult, "aborted")
        ELSE IF c.err
             THEN Returned(s, AddError(EmptyResult, "Conflict check failed"), "list")
        ELSE IF d.err
             THEN Returned(s, AddError(EmptyResult, "Dependency validation failed"), "list")
        ELSE IF env.abortAt = 4 THEN Returned(s, res, "aborted")
        ELSE IF c.conflicts # <<>> /\ ~options.ForceUpdate
             THEN Returned(s, [res EXCEPT !.Warnings = @ \o c.conflicts], "conflicts")
        ELSE IF d.missing # <<>> /\ ~options.ForceUpdate
             THEN Returned(s, res, "missing dependencies")
        ELSE IF options.DryRun THEN performDryRunSimulation(s, addon, c.conflicts, env)
        ELSE installBackup(s, res, addon, id, env)

---------------------------------------------------------------------------
(* Uninstaller (internal/addon/uninstaller.go).                            *)

\* strings.ToLower of the pack names and of the name queries, as characters.
ToLower ==
    [n \in {"", "A", "B", "C", "Pack-u4", "a", "b", "PACK"} |->
        CASE n \in {"A", "a"} -> <<"a">>
          [] n \in {"B", "b"} -> <<"b">>
          [] n = "C" -> <<"c">>
          [] n = "Pack-u4" -> <<"p", "a", "c", "k", "-", "u", "4">>
          [] n = "PACK" -> <<"p", "a", "c", "k">>
          [] OTHER -> <<>>]

\* containsIgnoreCase: strings.Contains of the lowered strings.
containsIgnoreCase(str, substr) ==
    LET a == ToLower[str]
        b == ToLower[substr]
    IN  \E i \in 0..(Len(a) - Len(b)) : SubSeq(a, i + 1, i + Len(b)) = b

\* findAddonPack taking the first of several packs that match a name.
findAddonPack_FirstMatch(s, identifier, byUUID) ==
    LET l == ListInstalledPacks(s)
        none == InstalledPack(PackReference("", <<0, 0, 0>>), "unknown", NoDirs)
        matches == IF byUUID
                   THEN SelectSeq(l.packs, LAMBDA ip : ip.PackID = identifier)
                   ELSE SelectSeq(l.packs, LAMBDA ip : containsIgnoreCase(ip.Name, identifier))
    IN  IF l.err THEN [err |-> "list", pack |-> none]
        ELSE IF matches = <<>> THEN [err |-> "not found", pack |-> none]
        ELSE [err |-> "", pack |-> matches[1]]

\* Uninstaller.findAddonPack: by UUID the first installed pack with the UUID;
\* by name the only pack whose name contains the identifier.
findAddonPack(s, identifier, byUUID) ==
    LET l == ListInstalledPacks(s)
        none == InstalledPack(PackReference("", <<0, 0, 0>>), "unknown", NoDirs)
        matches == IF byUUID
                   THEN SelectSeq(l.packs, LAMBDA ip : ip.PackID = identifier)
                   ELSE SelectSeq(l.packs, LAMBDA ip : containsIgnoreCase(ip.Name, identifier))
    IN  IF l.err THEN [err |-> "list", pack |-> none]
        ELSE IF matches = <<>> THEN [err |-> "not found", pack |-> none]
        ELSE IF ~byUUID /\ Len(matches) > 1 THEN [err |-> "ambiguous", pack |-> none]
        ELSE [err |-> "", pack |-> matches[1]]

\* A dependency check that reports no dependents.
checkDependencies_None(s, packID) ==
    [err |-> ListInstalledPacks(s).err, dependents |-> <<>>, warnings |-> <<>>]

\* A dependency check that passes over the packs whose manifest cannot be
\* loaded without a word.
checkDependencies_SilentSkip(s, packID) ==
    LET l == ListInstalledPacks(s)
        others == SelectSeq(l.packs, LAMBDA ip : ip.PackID # packID)
        man(ip) == loadPackManifest(s[PacksDir(ip.Type)], ip.PackID)
        dependsOn(ip) == \E k \in 1..Len(man(ip).man.deps) : man(ip).man.deps[k] = packID
    IN  IF l.err THEN [err |-> TRUE, dependents |-> <<>>, warnings |-> <<>>]
        ELSE [err |-> FALSE,
              dependents |-> MapSeq(SelectSeq(others, LAMBDA ip : ~man(ip).err /\ dependsOn(ip)),
                                    LAMBDA ip : ip.Name),
              warnings |-> <<>>]

\* Uninstaller.checkDependencies: the names of the installed packs whose
\* manifest on disk lists packID, and a warning for every installed pack whose
\* manifest cannot be loaded.
checkDependencies(s, packID) ==
    LET l == ListInstalledPacks(s)
        others == SelectSeq(l.packs, LAMBDA ip : ip.PackID # packID)
        man(ip) == loadPackManifest(s[PacksDir(ip.Type)], ip.PackID)
        dependsOn(ip) == \E k \in 1..Len(man(ip).man.deps) : man(ip).man.deps[k] = packID
    IN  IF l.err THEN [err |-> TRUE, dependents |-> <<>>, warnings |-> <<>>]
        ELSE [err |-> FALSE,
              dependents |-> MapSeq(SelectSeq(others, LAMBDA ip : ~man(ip).err /\ dependsOn(ip)),
                                    LAMBDA ip : ip.Name),
              warnings |-> MapSeq(SelectSeq(others, LAMBDA ip : man(ip).err),
                                  LAMBDA ip : Warning("incomplete", ip.Name, ip.PackID))]

DependentWarnings(dependents) ==
    MapSeq(dependents, LAMBDA n : Warning("dependent", n, ""))

\* Uninstaller.postUninstallValidation
postUninstallValidation(s, packID) ==
    LET l == ListInstalledPacks(s)
    IN  IF l.err THEN "list"
        ELSE IF packID \in InstalledUUIDs(s) THEN "still installed"
        ELSE ""

\* What the environment decides for one UninstallAddon:
\*   abortAt   the dry-run prompt (1..4) at which the operator answers no; 0
\*             when the call is not interactive or every answer is yes
\*   sameSecond, backup, restore   as for InstallAddon
\*   un        the outcomes UninstallPack meets
UninstallAddonEnv(abortAt, sameSecond, backup, un, restore) ==
    [abortAt |-> abortAt, sameSecond |-> sameSecond, backup |-> backup,
     un |-> un, restore |-> restore]

UninstallOptions(dryRun, byUUID) == [DryRun |-> dryRun, ByUUID |-> byUUID]

\* Uninstaller.performDryRunSimulation: the dependency check, the simulated
\* operation (DryRunSimulator.SimulatePackUninstallation fails when the pack
\* has no directory), four prompts.
performUninstallDryRun(s, pack, env) ==
    LET d == checkDependencies(s, pack.PackID)
        res == [EmptyResult EXCEPT !.Warnings = d.warnings \o DependentWarnings(d.dependents)]
    IN  IF d.err THEN Returned(s, AddError(EmptyResult, "Dependency check failed"), "list")
        ELSE IF MatchingDirs(s[PacksDir(pack.Type)], pack.PackID) = {}
             THEN Returned(s, AddError(res, "Uninstallation simulation failed"), "no directory")
        ELSE IF env.abortAt \in 1..4 THEN Returned(s, res, "aborted")
        ELSE Returned(s, [res EXCEPT !.Packs = <<pack.Name>>, !.Success = TRUE], "")

\* The rollback of UninstallAddon.
rollbackUninstall(s, res, id, env) ==
    LET r == RestoreBackup(s, id, env.restore)
    IN  [srv |-> r.srv,
         result |-> IF r.err THEN AddError(res, "Rollback failed") ELSE res]

\* UninstallAddon from step 4: UninstallPack and the post-validation, each
\* followed by a rollback when it fails.
uninstallApply(s, res, pack, id, env) ==
    LET u == UninstallPack(s, pack.PackID, env.un)
        rb == rollbackUninstall(u.srv, res, id, env)
        v == postUninstallValidation(u.srv, pack.PackID)
    IN  IF u.err # ""
        THEN Returned(rb.srv, AddError(rb.result, "Uninstallation failed"), u.err)
        ELSE IF v # ""
        THEN Returned(rb.srv, AddError(rb.result, "Post-uninstallation validation failed"), v)
        ELSE Returned(u.srv, [res EXCEPT !.Packs = <<pack.Name>>, !.Success = TRUE], "")

\* An UninstallAddon that removes the pack before it makes the backup.
UninstallAddon_ApplyBeforeBackup(s, id, identifier, options, env) ==
    LET f == findAddonPack(s, identifier, options.ByUUID)
        d == checkDependencies(s, f.pack.PackID)
        res == [EmptyResult EXCEPT !.Warnings = d.warnings \o DependentWarnings(d.dependents)]
        u == UninstallPack(s, f.pack.PackID, env.un)
        b == CreateUninstallBackup(u.srv, id, f.pack.PackID, env.backup)
    IN  IF f.err # "" THEN Returned(s, AddError(EmptyResult, "Failed to find addon"), f.err)
        ELSE IF options.DryRun THEN performUninstallDryRun(s, f.pack, env)
        ELSE IF d.err THEN Returned(s, AddError(EmptyResult, "Dependency check failed"), "list")
        ELSE IF b.err THEN Returned(b.srv, AddError(res, "Backup creation failed"), "backup")
        ELSE IF u.err # "" THEN Returned(b.srv, AddError(res, "Uninstallation failed"), u.err)
        ELSE Returned(b.srv, [res EXCEPT !.Packs = <<f.pack.Name>>, !.Success = TRUE,
                                         !.Backup = b.id], "")

\* Uninstaller.UninstallAddon.  id is the backup ID the clock gives this call.
UninstallAddon(s, id, identifier, options, env) ==
    LET f == findAddonPack(s, identifier, options.ByUUID)
        d == checkDependencies(s, f.pack.PackID)
        res == [EmptyResult EXCEPT !.Warnings = d.warnings \o DependentWarnings(d.dependents)]
        b == CreateUninstallBackup(s, id, f.pack.PackID, env.backup)
    IN  IF f.err # "" THEN Returned(s, AddError(EmptyResult, "Failed to find addon"), f.err)
        ELSE IF options.DryRun THEN performUninstallDryRun(s, f.pack, env)
        ELSE IF d.err THEN Returned(s, AddError(EmptyResult, "Dependency check failed"), "list")
        ELSE IF b.err THEN Returned(b.srv, AddError(res, "Backup creation failed"), "backup")
        ELSE uninstallApply(b.srv, [res EXCEPT !.Backup = b.id], f.pack, id, env)

---------------------------------------------------------------------------
(* The lifecycle state machine: one administrative call per step.          *)

VARIABLES
    srv,    \* the server directory and the backup root
    clock,  \* the Unix second of the latest CreateBackup (0: none yet)
    nops,   \* the number of calls made
    last,   \* the latest call: its inputs, the server before it, its result
    ext,    \* the extraction in progress: the destination directory and the
            \* latest archive entry handled
    analysis \* the dependency analysis: the installed packs and the dependencies
            \* their manifests declare, then the DependencyGroup computed

vars == <<srv, clock, nops, last, ext, analysis>>

Range(sq) == {sq[i] : i \in 1..Len(sq)}

\* Servers the engine is started on: fresh ones (config files absent or
\* holding an empty array), ones that already carry packs, one on which an
\* addon was installed with a backup, one on which a forced update failed
\* while copying and was rolled back, one on which a resource pack was
\* installed with force under the UUID of an installed behavior pack, and one
\* on which the removal of a pack failed half-way and its rollback failed too.
Preinstalled(addon) == installPacks(EmptyServer(Absent), addon, 0, PackOk).srv

InstallNoFault == [abortAt |-> 0, sameSecond |-> FALSE, backup |-> "ok", failPack |-> 0,
                   pack |-> PackOk, restore |-> "ok"]

UninstallNoFault == [abortAt |-> 0, sameSecond |-> FALSE, backup |-> "ok",
                     un |-> UninstallOk, restore |-> "ok"]

InitServers ==
    { EmptyServer(Absent),
      EmptyServer(JsonFile(Cfg(FALSE, <<>>))),
      Preinstalled(<<PackA1>>),
      Preinstalled(<<PackB, PackA1>>),
      Preinstalled(<<PackA1, PackB, PackC, PackD>>),
      InstallAddon(Preinstalled(<<PackB>>), 1, <<PackC>>, InstallOptions(FALSE, FALSE),
                   InstallNoFault).srv,
      InstallAddon(Preinstalled(<<PackA1>>), 1, <<PackA2>>, InstallOptions(FALSE, TRUE),
                   [InstallNoFault EXCEPT !.failPack = 1,
                                          !.pack = PackEnv("ok", "fail_manifest", "ok")]).srv,
      InstallAddon(Preinstalled(<<PackA1, PackB, PackC, PackD>>), 1, <<PackE>>,
                   InstallOptions(FALSE, TRUE), InstallNoFault).srv,
      UninstallAddon(Preinstalled(<<PackA1, PackB, PackC, PackD>>), 1, "u3",
                     UninstallOptions(FALSE, TRUE),
                     [UninstallNoFault EXCEPT !.un = UninstallEnv("ok", "fail_partial", "ok"),
                                              !.restore = "fail"]).srv }

NoCall == [op |-> "none"]

NoExtraction == [n |-> 0]

NoAnalysis == [phase |-> "none"]

Init ==
    /\ srv \in InitServers
    /\ clock = IF srv.meta = <<>> THEN 0 ELSE 1
    /\ nops = 0
    /\ last = NoCall
    /\ ext = NoExtraction
    /\ analysis = NoAnalysis

\* generateBackupID: the Unix second of the call.
BackupID(sameSecond) == IF sameSecond /\ clock > 0 THEN clock ELSE clock + 1

PackFaults ==
    {PackEnv(sv, "ok", "ok") : sv \in SaveOutcomes \ {"ok"}}
    \cup {PackEnv("ok", cp, "ok") : cp \in CopyOutcomes \ {"ok"}}
    \cup {PackEnv("ok", "fail_manifest", "fail_torn")}

\* The environments of a real installation: no fault, the operator aborting at
\* one prompt, a backup made in the second of the previous one, a failing
\* backup, a backup that fails in the second of the previous one, one pack
\* whose InstallPack fails, and one pack whose copy fails followed by a
\* restore that fails too.
InstallEnvs ==
    {[InstallNoFault EXCEPT !.abortAt = a] : a \in 0..7}
    \cup {[InstallNoFault EXCEPT !.sameSecond = TRUE]}
    \cup {[InstallNoFault EXCEPT !.backup = b] : b \in BackupOutcomes}
    \cup {[InstallNoFault EXCEPT !.sameSecond = TRUE, !.backup = "fail_copy"]}
    \cup {[InstallNoFault EXCEPT !.failPack = k, !.pack = f] : k \in 1..2, f \in PackFaults}
    \cup {[InstallNoFault EXCEPT !.failPack = k, !.pack = PackEnv("ok", "fail_manifest", "ok"),
                                 !.restore = "fail"] : k \in 1..2}

DryRunEnvs == {[InstallNoFault EXCEPT !.abortAt = a] : a \in {0, 5, 6, 7}}

NoFault(env) ==
    /\ env.backup = "ok"
    /\ env.restore = "ok"
    /\ "failPack" \in DOMAIN env => env.failPack = 0
    /\ "un" \in DOMAIN env => env.un = UninstallOk

BackupAttempted(result) ==
    result.Backup # 0 \/ "Backup creation failed" \in Range(result.Errors)

\* blockbench install <addon> [--dry-run] [--force] [--interactive]
Install(addon, options, env) ==
    /\ nops < MaxOps
    /\ env.failPack <= Len(addon)
    /\ \E id \in {BackupID(env.sameSecond)} :
       \E r \in {InstallAddon(srv, id, addon, options, env)} :
           /\ srv' = r.srv
           /\ clock' = IF BackupAttempted(r.result) THEN id ELSE clock
           /\ last' = [op |-> "install", addon |-> addon, options |-> options,
                       abortAt |-> env.abortAt, nofault |-> NoFault(env),
                       pre |-> srv, result |-> r.result]
    /\ nops' = nops + 1
    /\ UNCHANGED <<ext, analysis>>

UninstallFaults ==
    {UninstallEnv(sv, "ok", "ok") : sv \in SaveOutcomes \ {"ok"}}
    \cup {UninstallEnv("ok", rm, "ok") : rm \in RemoveOutcomes \ {"ok"}}
    \cup {UninstallEnv("ok", "fail_partial", "fail_torn")}

UninstallEnvs ==
    {UninstallNoFault, [UninstallNoFault EXCEPT !.sameSecond = TRUE]}
    \cup {[UninstallNoFault EXCEPT !.backup = b] : b \in BackupOutcomes}
    \cup {[UninstallNoFault EXCEPT !.un = f] : f \in UninstallFaults}
    \cup {[UninstallNoFault EXCEPT !.un = UninstallEnv("ok", "fail_partial", "ok"),
                                   !.restore = "fail"]}
    \cup {[UninstallNoFault EXCEPT !.restore = "fail"]}

UninstallDryRunEnvs == {[UninstallNoFault EXCEPT !.abortAt = a] : a \in {0, 1, 4}}

NameQueries == {"a", "b", "PACK"}

\* blockbench uninstall <identifier> [--uuid] [--dry-run] [--interactive]
Uninstall(identifier, options, env) ==
    /\ nops < MaxOps
    /\ \E id \in {BackupID(env.sameSecond)} :
       \E r \in {UninstallAddon(srv, id, identifier, options, env)} :
           /\ srv' = r.srv
           /\ clock' = IF BackupAttempted(r.result) THEN id ELSE clock
           /\ last' = [op |-> "uninstall", identifier |-> identifier, options |-> options,
                       abortAt |-> env.abortAt, nofault |-> NoFault(env),
                       pre |-> srv, result |-> r.result]
    /\ nops' = nops + 1
    /\ UNCHANGED <<ext, analysis>>

\* The configs handed to a direct SaveWorldConfig.
SavedConfigs ==
    { Cfg(TRUE, <<>>), Cfg(FALSE, <<>>),
      Cfg(FALSE, <<PackReference("u1", <<1, 0, 0>>)>>),
      Cfg(FALSE, <<PackReference("u2", <<1, 0, 0>>), PackReference("u1", <<2, 0, 0>>)>>) }

\* minecraft.SaveWorldConfig(filePath, config) on one of the two config files.
SaveConfig(type, config, outcome) ==
    /\ nops < MaxOps
    /\ \E cf \in {ConfigFile(type)} :
       \E sv \in {SaveWorldConfig(srv.world[cf], config, outcome)} :
           /\ srv' = [srv EXCEPT !.world[cf] = sv.content]
           /\ last' = [op |-> "save", file |-> cf, config |-> config,
                       pre |-> srv, err |-> sv.err]
    /\ nops' = nops + 1
    /\ UNCHANGED <<clock, ext, analysis>>

Next ==
    \/ \E addon \in Addons, force \in BOOLEAN, env \in InstallEnvs :
          Install(addon, InstallOptions(FALSE, force), env)
    \/ \E addon \in Addons, force \in BOOLEAN, env \in DryRunEnvs :
          Install(addon, InstallOptions(TRUE, force), env)
    \/ \E u \in UUIDs, env \in UninstallEnvs :
          Uninstall(u, UninstallOptions(FALSE, TRUE), env)
    \/ \E n \in NameQueries, env \in UninstallEnvs :
          Uninstall(n, UninstallOptions(FALSE, FALSE), env)
    \/ \E u \in UUIDs, env \in UninstallDryRunEnvs :
          Uninstall(u, UninstallOptions(TRUE, TRUE), env)

Spec == Init /\ [][Next]_vars

\* The config store on its own: SaveWorldConfig called on either config file.
NextSave ==
    \E type \in {"behavior", "resource"}, config \in SavedConfigs, outcome \in SaveOutcomes :
        SaveConfig(type, config, outcome)

SpecSave == Init /\ [][NextSave]_vars

\* The pack store on its own: Server.InstallPack and Server.UninstallPack
\* called one after the other.  last keeps the call before it in prev.
StoreServers ==
    { EmptyServer(Absent),
      EmptyServer(JsonFile(Cfg(FALSE, <<>>))),
      Preinstalled(<<PackB>>),
      Preinstalled(<<PackB, PackC>>) }

StorePacks == {PackA1, PackB, PackC, PackE}

InitStore ==
    /\ srv \in StoreServers
    /\ clock = 0
    /\ nops = 0
    /\ last = NoCall
    /\ ext = NoExtraction
    /\ analysis = NoAnalysis

StoreInstall(m, env) ==
    /\ nops < MaxStoreOps
    /\ \E r \in {InstallPack(srv, m, env)} :
           /\ srv' = r.srv
           /\ last' = [op |-> "InstallPack", m |-> m, env |-> env, pre |-> srv,
                       err |-> r.err, prev |-> last]
    /\ nops' = nops + 1
    /\ UNCHANGED <<clock, ext, analysis>>

StoreUninstall(packID, env) ==
    /\ nops < MaxStoreOps
    /\ \E r \in {UninstallPack(srv, packID, env)} :
           /\ srv' = r.srv
           /\ last' = [op |-> "UninstallPack", packID |-> packID, env |-> env,
                       pre |-> srv, err |-> r.err, prev |-> last]
    /\ nops' = nops + 1
    /\ UNCHANGED <<clock, ext, analysis>>

NextStore ==
    \/ \E m \in StorePacks, env \in {PackOk} \cup PackFaults : StoreInstall(m, env)
    \/ \E u \in UUIDs, env \in {UninstallOk} \cup UninstallFaults : StoreUninstall(u, env)

SpecStore == InitStore /\ [][NextStore]_vars

\* The world config functions on their own: a WorldConfig held in memory is
\* replaced by the result of LoadWorldConfig, AddPackToConfig or
\* RemovePackFromConfig.  last keeps the call, the config before it in pre and
\* the config it returned in config.
LoadedContents ==
    { Absent, Corrupt, JsonFile(Cfg(TRUE, <<>>)),
      JsonFile(Cfg(FALSE, <<PackReference("u2", <<1, 0, 0>>), PackReference("u1", <<1, 0, 0>>),
                            PackReference("u2", <<2, 0, 0>>)>>)) }

ConfigVersions == {<<1, 0, 0>>, <<2, 0, 0>>}

InitConfig ==
    /\ srv = EmptyServer(Absent)
    /\ clock = 0
    /\ nops = 0
    /\ last = [op |-> "none", config |-> Cfg(FALSE, <<>>)]
    /\ ext = NoExtraction
    /\ analysis = NoAnalysis

ConfigLoad(content) ==
    /\ nops < MaxConfigOps
    /\ \E r \in {LoadWorldConfig(content)} :
          last' = [op |-> "LoadWorldConfig", content |-> content, err |-> r.err,
                   pre |-> last.config, config |-> r.config]
    /\ nops' = nops + 1
    /\ UNCHANGED <<srv, clock, ext, analysis>>

ConfigAdd(packID, version) ==
    /\ nops < MaxConfigOps
    /\ last' = [op |-> "AddPackToConfig", packID |-> packID, version |-> version,
                pre |-> last.config,
                config |-> AddPackToConfig(last.config, packID, version)]
    /\ nops' = nops + 1
    /\ UNCHANGED <<srv, clock, ext, analysis>>

ConfigRemove(packID) ==
    /\ nops < MaxConfigOps
    /\ last' = [op |-> "RemovePackFromConfig", packID |-> packID,
                pre |-> last.config,
                config |-> RemovePackFromConfig(last.config, packID)]
    /\ nops' = nops + 1
    /\ UNCHANGED <<srv, clock, ext, analysis>>

NextConfig ==
    \/ \E content \in LoadedContents : ConfigLoad(content)
    \/ \E u \in UUIDs, v \in ConfigVersions : ConfigAdd(u, v)
    \/ \E u \in UUIDs : ConfigRemove(u)

SpecConfig == InitConfig /\ [][NextConfig]_vars

---------------------------------------------------------------------------
(* UUID normalization (pkg/validation).  A string is a sequence of          *)
(* one-character strings.                                                  *)

\* UUIDFullLength and UUIDCompactLength
UUIDFullLength == 36
UUIDCompactLength == 32

\* strings.ReplaceAll(uuid, "-", "")
RemoveDashes(uuid) == SelectSeq(uuid, LAMBDA c : c # "-")

\* strings.ToLower, character by character.
LowerChars(str) == [i \in 1..Len(str) |-> IF str[i] = "A" THEN "a" ELSE IF str[i] = "G" THEN "g" ELSE str[i]]

\* A normalization that puts the last dash two characters late.
NormalizeUUID_MisplacedDash(uuid) ==
    LET clean == LowerChars(RemoveDashes(uuid))
    IN  IF Len(clean) = UUIDCompactLength
        THEN SubSeq(clean, 1, 8) \o <<"-">> \o SubSeq(clean, 9, 12) \o <<"-">>
             \o SubSeq(clean, 13, 16) \o <<"-">> \o SubSeq(clean, 17, 22) \o <<"-">>
             \o SubSeq(clean, 23, Len(clean))
        ELSE uuid

\* NormalizeUUID
NormalizeUUID(uuid) ==
    LET clean == LowerChars(RemoveDashes(uuid))
    IN  IF Len(clean) = UUIDCompactLength
        THEN SubSeq(clean, 1, 8) \o <<"-">> \o SubSeq(clean, 9, 12) \o <<"-">>
             \o SubSeq(clean, 13, 16) \o <<"-">> \o SubSeq(clean, 17, 20) \o <<"-">>
             \o SubSeq(clean, 21, Len(clean))
        ELSE uuid

Run(c, k) == [i \in 1..k |-> c]

\* The strings handed to NormalizeUUID: five runs of 8, 4, 4, 4 and 12
\* characters, each of one character, with or without a dash after each of
\* the first four, followed by up to MaxExtra more characters; the empty
\* string and a short one.
GroupChars == {"a", "A", "g"}

ExtraChars == {"a", "-"}

UUIDInputs ==
    { Run(c[1], 8) \o d[1] \o Run(c[2], 4) \o d[2] \o Run(c[3], 4) \o d[3]
        \o Run(c[4], 4) \o d[4] \o Run(c[5], 12) \o x :
        c \in [1..5 -> GroupChars], d \in [1..4 -> {<<>>, <<"-">>}],
        x \in {Run(e, k) : e \in ExtraChars, k \in 0..MaxExtra} }
    \cup {<<>>, <<"a", "-", "A">>}

InitUUID ==
    /\ srv = EmptyServer(Absent)
    /\ clock = 0
    /\ nops = 0
    /\ last \in {[op |-> "none", value |-> x] : x \in UUIDInputs}
    /\ ext = NoExtraction
    /\ analysis = NoAnalysis

\* One call of NormalizeUUID on the string at hand; the result replaces it.
Normalize ==
    /\ nops < MaxNormalize
    /\ last' = [op |-> "NormalizeUUID", input |-> last.value,
                value |-> NormalizeUUID(last.value)]
    /\ nops' = nops + 1
    /\ UNCHANGED <<srv, clock, ext, analysis>>

NextUUID == Normalize

SpecUUID == InitUUID /\ [][NextUUID]_vars

---------------------------------------------------------------------------
(* Manifest parsing and validation (internal/minecraft/config.go).         *)

HexChars == {"a", "A", "1"}

\* ValidateUUID: 8-4-4-4-12 hexadecimal digits with dashes, or 32 without.
ValidateUUID(uuid) ==
    \/ /\ Len(uuid) = UUIDFullLength
       /\ \A i \in 1..Len(uuid) :
             IF i \in {9, 14, 19, 24} THEN uuid[i] = "-" ELSE uuid[i] \in HexChars
    \/ /\ Len(uuid) = UUIDCompactLength
       /\ \A i \in 1..Len(uuid) : uuid[i] \in HexChars

Dashed(c) ==
    Run(c, 8) \o <<"-">> \o Run(c, 4) \o <<"-">> \o Run(c, 4) \o <<"-">> \o Run(c, 4)
        \o <<"-">> \o Run(c, 12)

ManifestHeader(uuid, version, minVersion) ==
    [UUID |-> uuid, Version |-> version, MinVersion |-> minVersion]

ManifestModule(type, uuid, version) == [Type |-> type, UUID |-> uuid, Version |-> version]

\* A ManifestDependency after its UnmarshalJSON: a pack dependency carries a
\* UUID, a module dependency a module name and an empty UUID; Version is
\* what the version field holds when it is an array of integers.
ManifestDependency(uuid, moduleName, version) ==
    [UUID |-> uuid, ModuleName |-> moduleName, Version |-> version]

Manifest(formatVersion, header, modules, dependencies) ==
    [FormatVersion |-> formatVersion, Header |-> header, Modules |-> modules,
     Dependencies |-> dependencies]

\* The sequences over S of at most n elements.
RECURSIVE ListsUpTo(_, _)
ListsUpTo(S, n) ==
    IF n = 0 THEN {<<>>}
    ELSE LET shorter == ListsUpTo(S, n - 1)
         IN  shorter \cup {Append(q, x) : q \in {r \in shorter : Len(r) = n - 1}, x \in S}

\* The manifest documents read: one that is no JSON manifest, and the
\* manifests with these headers, modules and dependencies.
ManifestHeaders ==
    { ManifestHeader(uuid, version, minVersion) :
        uuid \in {<<>>, Dashed("a"), Run("A", 32), Run("g", 32)},
        version \in {<<1, 0, 0>>, <<1, 0, -1>>},
        minVersion \in {<<0, 0, 0>>, <<1, 20, 0>>, <<-1, 0, 0>>} }

ManifestModules ==
    { ManifestModule("data", Dashed("a"), <<1, 0, 0>>),
      ManifestModule("resources", Dashed("A"), <<1, 0, 0>>),
      ManifestModule("script", Run("A", 32), <<1, 0, 0>>),
      ManifestModule("skin_pack", Run("g", 32), <<1, 0, 0>>),
      ManifestModule("plugin", Dashed("1"), <<1, 0, 0>>),
      ManifestModule("data", Dashed("1"), <<0, -1, 0>>) }

ManifestDependencies ==
    { ManifestDependency(Dashed("a"), "", <<1, 0, 0>>),
      ManifestDependency(Dashed("a"), "", <<1, -2, 0>>),
      ManifestDependency(<<>>, "@minecraft/server", <<-1, 0, 0>>),
      ManifestDependency(Run("g", 32), "", <<1, 0, 0>>) }

ManifestData ==
    {[kind |-> "garbage"]}
    \cup {[kind |-> "json", manifest |-> Manifest(fv, h, ms, ds)] :
            fv \in 0..3, h \in ManifestHeaders,
            ms \in ListsUpTo(ManifestModules, MaxModules),
            ds \in ListsUpTo(ManifestDependencies, MaxManifestDeps)}

\* ParseManifestFromReader: the error, "" for none.
ParseManifestFromReader(data) ==
    IF data.kind # "json" THEN "failed to parse manifest JSON"
    ELSE IF data.manifest.Header.UUID = <<>> THEN "manifest missing required UUID in header"
    ELSE IF Len(data.manifest.Modules) = 0 THEN "manifest missing required modules"
    ELSE ""

Negative(version) == \E i \in 1..3 : version[i] < 0

ValidModuleTypes == {"data", "resources", "script", "skin_pack", "world_template"}

\* A validation of the modules that skips the duplicate check.
validateModules_NoDuplicateCheck(modules, i, seen) ==
    IF \E k \in 1..Len(modules) : ~ValidateUUID(modules[k].UUID)
    THEN "invalid module UUID format"
    ELSE IF \E k \in 1..Len(modules) : modules[k].Type \notin ValidModuleTypes
    THEN "invalid module type"
    ELSE IF \E k \in 1..Len(modules) : Negative(modules[k].Version)
    THEN "module version cannot be negative"
    ELSE ""

\* The error of the first module, from index i on, that ValidateManifest
\* rejects; seen holds the module UUIDs before it.
RECURSIVE validateModules(_, _, _)
validateModules(modules, i, seen) ==
    IF i > Len(modules) THEN ""
    ELSE IF ~ValidateUUID(modules[i].UUID) THEN "invalid module UUID format"
    ELSE IF modules[i].UUID \in seen THEN "duplicate module UUID"
    ELSE IF modules[i].Type \notin ValidModuleTypes THEN "invalid module type"
    ELSE IF Negative(modules[i].Version) THEN "module version cannot be negative"
    ELSE validateModules(modules, i + 1, seen \cup {modules[i].UUID})

RECURSIVE validateDeps(_, _)
validateDeps(deps, i) ==
    IF i > Len(deps) THEN ""
    ELSE IF deps[i].UUID # <<>> /\ ~ValidateUUID(deps[i].UUID)
         THEN "invalid dependency UUID format"
    ELSE IF deps[i].UUID # <<>> /\ Negative(deps[i].Version)
         THEN "dependency version cannot be negative"
    ELSE validateDeps(deps, i + 1)

\* ValidateManifest: the error, "" for none.
ValidateManifest(manifest) ==
    IF manifest.FormatVersion < 1 \/ manifest.FormatVersion > 2
    THEN "unsupported format version"
    ELSE IF ~ValidateUUID(manifest.Header.UUID) THEN "invalid header UUID format"
    ELSE IF Negative(manifest.Header.Version) THEN "header version cannot be negative"
    ELSE IF manifest.Header.MinVersion # <<0, 0, 0>> /\ Negative(manifest.Header.MinVersion)
    THEN "min_engine_version cannot be negative"
    ELSE IF Len(manifest.Modules) = 0 THEN "manifest must have at least one module"
    ELSE IF validateModules(manifest.Modules, 1, {}) # ""
    THEN validateModules(manifest.Modules, 1, {})
    ELSE validateDeps(manifest.Dependencies, 1)

\* Manifest.GetPackType: the type the first data or resources module gives.
GetPackType(manifest) ==
    LET typed == {i \in 1..Len(manifest.Modules) :
                     manifest.Modules[i].Type \in {"data", "resources"}}
        first == CHOOSE i \in typed : \A j \in typed : i <= j
    IN  IF typed = {} THEN "unknown"
        ELSE IF manifest.Modules[first].Type = "data" THEN "behavior"
        ELSE "resource"

\* processManifest of the extractor: the manifest is parsed and validated, and
\* a pack of unknown type is rejected.
processManifest(data) ==
    LET perr == ParseManifestFromReader(data)
        verr == IF perr = "" THEN ValidateManifest(data.manifest) ELSE ""
        type == IF perr = "" /\ verr = "" THEN GetPackType(data.manifest) ELSE "unknown"
    IN  [parseErr |-> perr, validateErr |-> verr, packType |-> type,
         err |-> IF perr # "" THEN "failed to parse manifest"
                 ELSE IF verr # "" THEN "manifest validation failed"
                 ELSE IF type = "unknown" THEN "unable to determine pack type from manifest"
                 ELSE ""]

InitManifest ==
    /\ srv = EmptyServer(Absent)
    /\ clock = 0
    /\ nops = 0
    /\ last = NoCall
    /\ ext = NoExtraction
    /\ analysis = NoAnalysis

\* A manifest document is parsed and, when the parser returns a manifest,
\* validated; the extractor then takes its pack type.
ReadManifest(data) ==
    /\ last = NoCall
    /\ \E r \in {processManifest(data)} :
          last' = [op |-> "manifest", data |-> data, parseErr |-> r.parseErr,
                   validateErr |-> r.validateErr,
                   accepted |-> r.parseErr = "" /\ r.validateErr = "",
                   packType |-> r.packType, err |-> r.err]
    /\ UNCHANGED <<srv, clock, nops, ext, analysis>>

\* One document is read in a run.
NextManifest == last = NoCall /\ \E data \in ManifestData : ReadManifest(data)

SpecManifest == InitManifest /\ [][NextManifest]_vars

---------------------------------------------------------------------------
(* The dependency check of the installer on its own.                       *)

\* The most packs in an addon handed to the dependency check.
MaxIncoming == 2

\* The text of the UUIDs of the model, as characters: U1 is u1 written in
\* upper case, u1c is u1 written without dashes.
Grouped(c, d) ==
    Run(c, 8) \o <<"-">> \o Run(d, 4) \o <<"-">> \o Run(d, 4) \o <<"-">> \o Run(d, 4)
        \o <<"-">> \o Run(d, 12)

UUIDText ==
    [u \in {"u1", "U1", "u1c", "u2", "u3", "u4"} |->
        CASE u = "u1" -> Dashed("a")
          [] u = "U1" -> Dashed("A")
          [] u = "u1c" -> Run("a", 32)
          [] u = "u2" -> Dashed("1")
          [] u = "u3" -> Grouped("a", "1")
          [] u = "u4" -> Grouped("1", "a")]

\* Packs whose manifests write the UUID u1 in another form.
PackAUpper == Mf("U1", "A", <<1, 0, 0>>, "behavior", <<>>)
PackBUpper == Mf("u2", "B", <<1, 0, 0>>, "behavior", <<"U1">>)
PackBCompact == Mf("u2", "B", <<1, 0, 0>>, "behavior", <<"u1c">>)
\* A pack with a dependency on a module (no UUID) and one on a pack.
PackM == Mf("u3", "C", <<1, 0, 0>>, "resource", <<"", "u2">>)

IncomingPacks == {PackA1, PackAUpper, PackB, PackBUpper, PackBCompact, PackM, PackD}

InitDepCheck ==
    /\ srv \in {EmptyServer(Absent), Preinstalled(<<PackA1>>), Preinstalled(<<PackAUpper>>),
                Preinstalled(<<PackA1, PackB>>)}
    /\ clock = 0
    /\ nops = 0
    /\ last = NoCall
    /\ ext = NoExtraction
    /\ analysis = NoAnalysis

\* Installer.validateDependencies on the packs of one extracted addon.
ValidateDeps(addon) ==
    /\ last = NoCall
    /\ \E d \in {validateDependencies(srv, addon)} :
          last' = [op |-> "validateDependencies", addon |-> addon, err |-> d.err,
                   missing |-> d.missing]
    /\ UNCHANGED <<srv, clock, nops, ext, analysis>>

NextDepCheck ==
    last = NoCall /\ \E addon \in ListsUpTo(IncomingPacks, MaxIncoming) : ValidateDeps(addon)

SpecDepCheck == InitDepCheck /\ [][NextDepCheck]_vars

---------------------------------------------------------------------------
(* Archive extraction (pkg/filesystem/archive.go).  A path is a sequence   *)
(* of segments, absolute or not.                                           *)

PathName(abs, segs) == [abs |-> abs, segs |-> segs]

Segments == {"a", ".", "..", "a..b"}

RECURSIVE SeqsUpTo(_, _)
SeqsUpTo(S, n) ==
    IF n = 0 THEN {<<>>}
    ELSE SeqsUpTo(S, n - 1)
         \cup {Append(q, x) : q \in {r \in SeqsUpTo(S, n - 1) : Len(r) = n - 1}, x \in S}

\* The entry names of the archives: 1 to MaxSegs segments, with or without a
\* leading separator.
EntryNames == {PathName(abs, q) : abs \in BOOLEAN, q \in SeqsUpTo(Segments, MaxSegs) \ {<<>>}}

\* filepath.Clean, segment by segment: "." is dropped, ".." removes the
\* segment before it, is dropped at the root and kept at the start of a
\* relative path.  The empty relative path stands for ".".
RECURSIVE CleanSegs(_, _, _)
CleanSegs(abs, segs, out) ==
    IF segs = <<>> THEN out
    ELSE LET x == Head(segs)
         IN  IF x = "." THEN CleanSegs(abs, Tail(segs), out)
             ELSE IF x # ".." THEN CleanSegs(abs, Tail(segs), Append(out, x))
             ELSE IF out # <<>> /\ out[Len(out)] # ".."
                  THEN CleanSegs(abs, Tail(segs), SubSeq(out, 1, Len(out) - 1))
             ELSE IF abs THEN CleanSegs(abs, Tail(segs), out)
             ELSE CleanSegs(abs, Tail(segs), Append(out, x))

Clean(name) == PathName(name.abs, CleanSegs(name.abs, name.segs, <<>>))

\* strings.Contains(path, ".."): some segment has two dots in a row.
ContainsDotDot(name) == \E i \in 1..Len(name.segs) : name.segs[i] \in {"..", "a..b"}

\* filepath.Join(destDir, cleanPath): the elements joined by a separator, cleaned.
Join(destDir, name) == Clean(PathName(destDir.abs, destDir.segs \o name.segs))

\* filepath.Dir
ParentDir(path) ==
    IF path.segs = <<>> THEN path
    ELSE PathName(path.abs, SubSeq(path.segs, 1, Len(path.segs) - 1))

\* The destination directory ExtractArchive is given.
DestDir == PathName(TRUE, <<"tmp", "x">>)

IsPrefix(p, q) ==
    /\ p.abs = q.abs
    /\ Len(p.segs) <= Len(q.segs)
    /\ SubSeq(q.segs, 1, Len(p.segs)) = p.segs

\* The destination directory once ExtractArchive has created it.  The
\* directories above it exist.
FreshDest == (DestDir :> "dir")

IsDirectory(files, p) ==
    \/ p \in DOMAIN files /\ files[p] = "dir"
    \/ IsPrefix(p, DestDir) /\ p # DestDir

IsFile(files, p) == p \in DOMAIN files /\ files[p] = "file"

Prefixes(p) == {PathName(p.abs, SubSeq(p.segs, 1, k)) : k \in 0..Len(p.segs)}

\* os.MkdirAll: fails when the path or one of its parents is a file.
MkdirAll(files, p) ==
    IF \E q \in Prefixes(p) : IsFile(files, q) THEN [err |-> TRUE, files |-> files]
    ELSE [err |-> FALSE,
          files |-> [q \in DOMAIN files \cup {r \in Prefixes(p) : ~IsDirectory(files, r)} |->
                        IF q \in DOMAIN files THEN files[q] ELSE "dir"]]

\* A zip.File: its name, whether its mode marks a directory or a symbolic
\* link, and the length of its decompressed contents in bytes.
ArchiveEntry(name, isDir, symlink, size) ==
    [name |-> name, isDir |-> isDir, symlink |-> symlink, size |-> size]

\* const maxFileSize = 100 * 1024 * 1024
maxFileSize == 104857600

\* os.OpenFile(destPath, O_WRONLY|O_CREATE|O_TRUNC, mode): the file it creates
\* is a regular file whatever the type bits of mode are.
WriteEntry(files, dest) ==
    IF IsDirectory(files, dest) THEN [err |-> TRUE, files |-> files]
    ELSE [err |-> FALSE, files |-> (dest :> "file") @@ files]

\* io.Copy(destFile, io.LimitReader(srcFile, maxFileSize)) and the check of
\* the number of bytes written: the file stays where it was written.
CopyLimited(opened, file) ==
    LET written == IF file.size < maxFileSize THEN file.size ELSE maxFileSize
    IN  IF opened.err THEN opened
        ELSE [err |-> written >= maxFileSize, files |-> opened.files]

\* extractFile without the check of the cleaned name.
extractFile_Unchecked(files, file, destDir) ==
    LET destPath == Join(destDir, Clean(file.name))
        parent == MkdirAll(files, ParentDir(destPath))
    IN  IF file.isDir THEN MkdirAll(files, destPath)
        ELSE IF parent.err THEN parent
        ELSE CopyLimited(WriteEntry(parent.files, destPath), file)

\* extractFile
extractFile(files, file, destDir) ==
    LET cleanPath == Clean(file.name)
        destPath == Join(destDir, cleanPath)
        parent == MkdirAll(files, ParentDir(destPath))
    IN  IF ContainsDotDot(cleanPath) THEN [err |-> TRUE, files |-> files]
        ELSE IF file.isDir THEN MkdirAll(files, destPath)
        ELSE IF parent.err THEN parent
        ELSE CopyLimited(WriteEntry(parent.files, destPath), file)

\* filepath.IsAbs
IsAbs(name) == name.abs

\* ValidateArchive of the archive with these entries: the error, "" for none.
\* The names are tested as the archive gives them.
ValidateArchive(entries) ==
    LET bad == {i \in 1..Len(entries) :
                   ContainsDotDot(entries[i].name) \/ IsAbs(entries[i].name)}
        first == CHOOSE i \in bad : \A j \in bad : i <= j
    IN  IF entries = <<>> THEN "archive is empty"
        ELSE IF bad = {} THEN ""
        ELSE IF ContainsDotDot(entries[first].name)
             THEN "archive contains suspicious file path"
        ELSE "archive contains absolute file path"

\* ExtractArchive, one entry of the archive per step: the destination is
\* created, the entries are extracted in order, the first failure ends the
\* extraction with an error and leaves what was written.  validation is what
\* ValidateArchive says of the archive made of the entries so far: the error
\* of the first entry it rejects.
ExtractEntry(file) ==
    /\ ext.n < MaxEntries
    /\ ext.n > 0 => ~ext.failed
    /\ \E before \in {IF ext.n = 0 THEN FreshDest ELSE ext.files} :
       \E r \in {extractFile(before, file, DestDir)} :
          ext' = [n |-> ext.n + 1, entry |-> file, before |-> before,
                  files |-> r.files, failed |-> r.err,
                  validation |-> IF ext.n > 0 /\ ext.validation # "" THEN ext.validation
                                 ELSE ValidateArchive(<<file>>)]
    /\ UNCHANGED <<srv, clock, nops, last, analysis>>

InitArchive ==
    /\ srv = EmptyServer(Absent)
    /\ clock = 0
    /\ nops = 0
    /\ last = NoCall
    /\ ext = NoExtraction
    /\ analysis = NoAnalysis

\* The decompressed lengths of the entries: around maxFileSize and around
\* half of it.
EntrySizes == {1, maxFileSize \div 2, maxFileSize - 1, maxFileSize, maxFileSize + 1}

\* The archives hold one-byte file entries of every name and, under the
\* one-segment names, directory entries, symbolic links and files of every
\* length of EntrySizes.
ArchiveEntries ==
    {ArchiveEntry(name, FALSE, FALSE, 1) : name \in EntryNames}
    \cup {ArchiveEntry(name, TRUE, FALSE, 0) : name \in {n \in EntryNames : Len(n.segs) = 1}}
    \cup {ArchiveEntry(name, FALSE, TRUE, 1) : name \in {n \in EntryNames : Len(n.segs) = 1}}
    \cup {ArchiveEntry(name, FALSE, FALSE, size) :
             name \in {n \in EntryNames : Len(n.segs) = 1}, size \in EntrySizes}

NextArchive == \E file \in ArchiveEntries : ExtractEntry(file)

SpecArchive == InitArchive /\ [][NextArchive]_vars

---------------------------------------------------------------------------
(* The addon extractor (internal/addon: ExtractAddon) and the scratch      *)
(* directory it hands to InstallAddon.                                     *)

\* const maxIterations = 10
maxIterations == 10

\* The deepest nesting of .mcpack archives in the addon files offered.
MaxDepth == 11

\* What an archive holds, reduced to what the extractor looks at: a pack
\* directory with a manifest.json that processManifest accepts, one whose
\* manifest it rejects, or a file that is neither a manifest nor a .mcpack.
PackContent(m) == [kind |-> "pack", man |-> m]
BadManifest == [kind |-> "bad", man |-> NoManifest]
OtherFile == [kind |-> "other", man |-> NoManifest]

\* One entry of an addon file: content wrapped in depth .mcpack archives, one
\* inside the other (depth 0: the content lies in the addon file itself).
Nested(depth, content) == [depth |-> depth, content |-> content]

\* An addon file: its extension, whether zip.OpenReader can read it, and its
\* entries in the order filepath.Walk meets them once extracted.
AddonFile(extension, readable, items) ==
    [ext |-> extension, readable |-> readable, items |-> items]

\* The scratch directory: whether it exists and what lies in it.
NoScratch == [exists |-> FALSE, items |-> <<>>]

Scratch(items) == [exists |-> TRUE, items |-> items]

\* os.RemoveAll(tempDir)
RemoveAllScratch(tmp, outcome) == IF outcome = "ok" THEN NoScratch ELSE tmp

\* The outcomes the environment gives the extractor: os.MkdirTemp, the
\* ExtractArchive of the addon file, the iteration (from 1) in which the
\* ExtractArchive of a nested .mcpack fails (0: none), and os.RemoveAll of
\* the scratch directory.
ExtractEnv(mkdirTemp, extract, nestedFailAt, cleanup) ==
    [mkdirTemp |-> mkdirTemp, extract |-> extract, nestedFailAt |-> nestedFailAt,
     cleanup |-> cleanup]

ExtractOk == ExtractEnv("ok", "ok", 0, "ok")

\* findMcpackFiles: the entries that still are .mcpack files.
findMcpackFiles(items) == SelectSeq(items, LAMBDA it : it.depth > 0)

\* One pass of extractNestedMcpacks over the .mcpack files found: each is
\* extracted beside itself and removed.
ExtractEach(items) ==
    [i \in 1..Len(items) |->
        IF items[i].depth > 0 THEN Nested(items[i].depth - 1, items[i].content)
        ELSE items[i]]

\* extractNestedMcpacks from the given iteration on.
RECURSIVE extractNestedMcpacks(_, _, _)
extractNestedMcpacks(items, iteration, env) ==
    IF iteration >= maxIterations
    THEN [err |-> "exceeded maximum nesting depth - possible malformed or malicious archive",
          items |-> items]
    ELSE IF findMcpackFiles(items) = <<>> THEN [err |-> "", items |-> items]
    ELSE IF env.nestedFailAt = iteration + 1
    THEN [err |-> "failed to extract mcpack", items |-> items]
    ELSE extractNestedMcpacks(ExtractEach(items), iteration + 1, env)

\* findManifestFiles: the manifests that lie in the scratch directory.
findManifestFiles(items) ==
    SelectSeq(items, LAMBDA it : it.depth = 0 /\ it.content.kind \in {"pack", "bad"})

\* analyzeExtractedAddon: the packs of the manifests found, in order.
analyzeExtractedAddon(items) ==
    LET manifests == findManifestFiles(items)
    IN  IF manifests = <<>>
        THEN [err |-> "no manifest.json files found in extracted addon", addon |-> <<>>]
        ELSE IF \E i \in 1..Len(manifests) : manifests[i].content.kind = "bad"
        THEN [err |-> "failed to process manifest", addon |-> <<>>]
        ELSE [err |-> "", addon |-> [i \in 1..Len(manifests) |-> manifests[i].content.man]]

\* ValidateAddonFile, and the same checks at the head of ExtractAddon: the
\* error, "" for none.
ValidateAddonFile(file) ==
    IF file.ext \notin {".mcaddon", ".mcpack"} THEN "unsupported file type"
    ELSE IF ~file.readable \/ file.items = <<>> THEN "archive validation failed"
    ELSE IF findMcpackFiles(file.items) = <<>> /\ findManifestFiles(file.items) = <<>>
    THEN "archive does not contain any manifest.json files or .mcpack files"
    ELSE ""

\* An ExtractAddon that leaves the scratch directory behind when the
\* analysis of the extracted files fails.
ExtractAddon_LeakOnAnalysis(file, dryRun, env) ==
    LET nested == IF file.ext = ".mcaddon" THEN extractNestedMcpacks(file.items, 0, env)
                  ELSE [err |-> "", items |-> file.items]
        a == analyzeExtractedAddon(nested.items)
        failed(e, items) == [err |-> e, addon |-> <<>>, created |-> TRUE,
                             tmp |-> RemoveAllScratch(Scratch(items), env.cleanup)]
    IN  IF ValidateAddonFile(file) # ""
        THEN [err |-> ValidateAddonFile(file), addon |-> <<>>, created |-> FALSE, tmp |-> NoScratch]
        ELSE IF env.mkdirTemp # "ok"
        THEN [err |-> "failed to create temporary directory", addon |-> <<>>,
              created |-> FALSE, tmp |-> NoScratch]
        ELSE IF env.extract # "ok" THEN failed("failed to extract archive", <<>>)
        ELSE IF nested.err # "" THEN failed(nested.err, nested.items)
        ELSE IF a.err # ""
        THEN [err |-> a.err, addon |-> <<>>, created |-> TRUE, tmp |-> Scratch(nested.items)]
        ELSE [err |-> "", addon |-> a.addon, created |-> TRUE, tmp |-> Scratch(nested.items)]

\* ExtractAddon: the error ("" for none), the packs found, whether the scratch
\* directory was created, and the scratch directory when the call returns.
ExtractAddon(file, dryRun, env) ==
    LET nested == IF file.ext = ".mcaddon" THEN extractNestedMcpacks(file.items, 0, env)
                  ELSE [err |-> "", items |-> file.items]
        a == analyzeExtractedAddon(nested.items)
        failed(e, items) == [err |-> e, addon |-> <<>>, created |-> TRUE,
                             tmp |-> RemoveAllScratch(Scratch(items), env.cleanup)]
    IN  IF ValidateAddonFile(file) # ""
        THEN [err |-> ValidateAddonFile(file), addon |-> <<>>, created |-> FALSE, tmp |-> NoScratch]
        ELSE IF env.mkdirTemp # "ok"
        THEN [err |-> "failed to create temporary directory", addon |-> <<>>,
              created |-> FALSE, tmp |-> NoScratch]
        ELSE IF env.extract # "ok" THEN failed("failed to extract archive", <<>>)
        ELSE IF nested.err # "" THEN failed(nested.err, nested.items)
        ELSE IF a.err # "" THEN failed(a.err, nested.items)
        ELSE [err |-> "", addon |-> a.addon, created |-> TRUE, tmp |-> Scratch(nested.items)]

\* Installer.InstallAddon on an addon file: the pre-installation validation,
\* the first prompt, ExtractAddon, the steps on the extracted packs, and the
\* deferred Cleanup of the scratch directory.
InstallAddonFile(s, id, file, options, env, xenv) ==
    LET x == ExtractAddon(file, options.DryRun, xenv)
        r == InstallAddon(s, id, x.addon, options, env)
    IN  IF ValidateAddonFile(file) # ""
        THEN [srv |-> s, created |-> FALSE, tmp |-> NoScratch,
              result |-> [AddError(EmptyResult, "Pre-installation validation failed")
                             EXCEPT !.err = ValidateAddonFile(file)]]
        ELSE IF env.abortAt = 1
        THEN [srv |-> s, created |-> FALSE, tmp |-> NoScratch,
              result |-> [EmptyResult EXCEPT !.err = "aborted"]]
        ELSE IF x.err # ""
        THEN [srv |-> s, created |-> x.created, tmp |-> x.tmp,
              result |-> [AddError(EmptyResult, "Extraction failed") EXCEPT !.err = x.err]]
        ELSE [srv |-> r.srv, created |-> TRUE, result |-> r.result,
              tmp |-> RemoveAllScratch(x.tmp, xenv.cleanup)]

\* The addon files offered: for every extension, depth and content the file
\* with that one entry, files with two entries, an empty archive and a file
\* that is no archive.
ItemContents == {PackContent(PackA1), PackContent(PackC), BadManifest, OtherFile}

AddonFiles ==
    {AddonFile(e, TRUE, <<Nested(d, c)>>) :
        e \in {".mcaddon", ".mcpack", ".zip"}, d \in 0..MaxDepth, c \in ItemContents}
    \cup {AddonFile(".mcaddon", TRUE, items) :
            items \in { <<Nested(1, PackContent(PackA1)), Nested(1, PackContent(PackB))>>,
                        <<Nested(0, PackContent(PackC)), Nested(2, PackContent(PackA2))>>,
                        <<Nested(1, PackContent(PackA1)), Nested(MaxDepth, OtherFile)>>,
                        <<Nested(0, PackContent(PackA1)), Nested(1, BadManifest)>> }}
    \cup {AddonFile(".mcaddon", TRUE, <<>>), AddonFile(".mcaddon", FALSE, <<>>)}

\* The files handed to InstallAddon: those nested at most two deep.
InstallFiles == {f \in AddonFiles : \A i \in 1..Len(f.items) : f.items[i].depth <= 2}

ExtractEnvs ==
    { ExtractOk,
      ExtractEnv("fail", "ok", 0, "ok"),
      ExtractEnv("ok", "fail", 0, "ok"),
      ExtractEnv("ok", "fail", 0, "fail"),
      ExtractEnv("ok", "ok", 1, "ok"),
      ExtractEnv("ok", "ok", 2, "ok"),
      ExtractEnv("ok", "ok", 0, "fail") }

InitExtract ==
    /\ srv \in {EmptyServer(Absent), Preinstalled(<<PackA1>>)}
    /\ clock = 0
    /\ nops = 0
    /\ last = NoCall
    /\ ext = NoExtraction
    /\ analysis = NoAnalysis

\* ExtractAddon(addonPath, dryRun) called on its own.
Extract(file, dryRun, xenv) ==
    /\ last = NoCall
    /\ \E x \in {ExtractAddon(file, dryRun, xenv)} :
          /\ last' = [op |-> "ExtractAddon", file |-> file, dryRun |-> dryRun,
                      xenv |-> xenv, err |-> x.err, addon |-> x.addon,
                      created |-> x.created]
          /\ ext' = [n |-> 1, tmp |-> x.tmp]
    /\ UNCHANGED <<srv, clock, nops, analysis>>

\* InstallAddon(addonPath, options)
InstallFile(file, options, env, xenv) ==
    /\ last = NoCall
    /\ \E r \in {InstallAddonFile(srv, 1, file, options, env, xenv)} :
          /\ srv' = r.srv
          /\ clock' = IF BackupAttempted(r.result) THEN 1 ELSE clock
          /\ last' = [op |-> "InstallAddon", file |-> file, options |-> options,
                      env |-> env, xenv |-> xenv, pre |-> srv, result |-> r.result,
                      created |-> r.created]
          /\ ext' = [n |-> 1, tmp |-> r.tmp]
    /\ UNCHANGED <<nops, analysis>>

\* One call is made in a run.
NextExtract ==
    /\ last = NoCall
    /\ \/ \E file \in AddonFiles, dryRun \in BOOLEAN, xenv \in ExtractEnvs :
             Extract(file, dryRun, xenv)
       \/ \E file \in InstallFiles, force \in BOOLEAN, env \in InstallEnvs, xenv \in ExtractEnvs :
             InstallFile(file, InstallOptions(FALSE, force), env, xenv)
       \/ \E file \in InstallFiles, force \in BOOLEAN, env \in DryRunEnvs, xenv \in ExtractEnvs :
             InstallFile(file, InstallOptions(TRUE, force), env, xenv)

SpecExtract == InitExtract /\ [][NextExtract]_vars

---------------------------------------------------------------------------
(* The backup manager on its own.                                          *)

\* The backup manager on its own: filesystem.BackupManager.CreateBackup of a
\* list of source paths, changes to the live paths, and RestoreBackup of the
\* backup made.  last keeps the list and the server at the time of the backup.
BackedUpPaths ==
    {Path("world", WorldBehaviorPacks), Path("bp", PackDirName(PackA1)),
     Path("rp", PackDirName(PackE))}

PathLists ==
    {l \in SeqsUpTo(BackedUpPaths, MaxListed) :
        l # <<>> /\ \A i, j \in 1..Len(l) : l[i] = l[j] => i = j}

\* What a live path can be made to hold; Absent stands for its removal.
LiveContents(p) ==
    IF p.root = "world"
    THEN {Absent, JsonFile(Cfg(FALSE, <<>>)),
          JsonFile(Cfg(FALSE, <<PackReference("u1", <<1, 0, 0>>)>>))}
    ELSE {Absent, Dir(PackA1, "complete"), Dir(PackE, "complete")}

InitBackup ==
    /\ srv \in {EmptyServer(Absent), Preinstalled(<<PackA1>>), Preinstalled(<<PackA1, PackE>>)}
    /\ clock = 0
    /\ nops = 0
    /\ last = NoCall
    /\ ext = NoExtraction
    /\ analysis = NoAnalysis

TakeBackup(files, outcome) ==
    /\ last = NoCall
    /\ \E r \in {CreateBackup(srv, 1, "manual", files, outcome)} :
           /\ srv' = r.srv
           /\ last' = [op |-> "backup", id |-> r.id, files |-> files, snapshot |-> srv,
                       err |-> r.err]
    /\ clock' = 1
    /\ UNCHANGED <<nops, ext, analysis>>

EditPath(p, content) ==
    /\ last.op = "backup" /\ ~last.err
    /\ nops < MaxEdits
    /\ srv' = IF content = Absent THEN RemovePath(srv, p) ELSE WritePath(srv, p, content)
    /\ nops' = nops + 1
    /\ UNCHANGED <<clock, last, ext, analysis>>

Restore(outcome) ==
    /\ last.op = "backup" /\ ~last.err
    /\ \E r \in {RestoreBackup(srv, last.id, outcome)} :
           /\ srv' = r.srv
           /\ last' = [op |-> "restore", id |-> last.id, files |-> last.files,
                       snapshot |-> last.snapshot, err |-> r.err]
    /\ UNCHANGED <<clock, nops, ext, analysis>>

NextBackup ==
    \/ \E files \in PathLists, outcome \in BackupOutcomes : TakeBackup(files, outcome)
    \/ \E p \in BackedUpPaths : \E content \in LiveContents(p) : EditPath(p, content)
    \/ \E outcome \in RestoreOutcomes : Restore(outcome)

SpecBackup == InitBackup /\ [][NextBackup]_vars

---------------------------------------------------------------------------
(* Dependency analysis (internal/addon/dependencies.go).                   *)

\* A PackRelationship: the pack, the pack UUIDs its manifest depends on and the
\* packs found to depend on it.
PackRelationship(id, deps, dependents) ==
    [PackID |-> id, Dependencies |-> deps, Dependents |-> dependents]

\* The orders in which a range over a map with the keys S can run.
Orders(S) ==
    {o \in [1..Cardinality(S) -> S] : \A i, j \in 1..Cardinality(S) : o[i] = o[j] => i = j}

\* DependencyAnalyzer.calculateDependents: every pack is appended to the
\* Dependents of each installed pack it depends on, once per dependency entry.
RECURSIVE addDependents(_, _, _)
addDependents(rels, packID, deps) ==
    IF deps = <<>> THEN rels
    ELSE addDependents(
            IF Head(deps) \in DOMAIN rels
            THEN [rels EXCEPT ![Head(deps)].Dependents = Append(@, packID)]
            ELSE rels,
            packID, Tail(deps))

RECURSIVE calculateDependents(_, _)
calculateDependents(rels, order) ==
    IF order = <<>> THEN rels
    ELSE calculateDependents(addDependents(rels, Head(order), rels[Head(order)].Dependencies),
                             Tail(order))

FirstIndex(path, id) ==
    IF \E i \in 1..Len(path) : path[i] = id
    THEN CHOOSE i \in 1..Len(path) : path[i] = id /\ \A j \in 1..(i - 1) : path[j] # id
    ELSE 0

\* The closure dfs of detectCircularDependencies.  st holds the maps visited
\* and recursionStack; the result holds them too, and the cycle path returned
\* (<<>> for nil).  A return that carries a cycle leaves the recursionStack
\* marks of the path in place.
RECURSIVE dfs(_, _, _, _)
RECURSIVE dfsDependencies(_, _, _, _)
dfsDependencies(rels, path, deps, st) ==
    IF deps = <<>> THEN [cycle |-> <<>>, visited |-> st.visited, stack |-> st.stack]
    ELSE LET depID == Head(deps)
             r == dfs(rels, depID, path, st)
         IN  IF depID \notin st.visited
             THEN IF r.cycle # <<>> THEN r
                  ELSE dfsDependencies(rels, path, Tail(deps),
                                       [visited |-> r.visited, stack |-> r.stack])
             ELSE IF depID \in st.stack /\ FirstIndex(path, depID) # 0
                  THEN [cycle |-> SubSeq(path, FirstIndex(path, depID), Len(path)),
                        visited |-> st.visited, stack |-> st.stack]
             ELSE dfsDependencies(rels, path, Tail(deps), st)

dfs(rels, packID, path, st) ==
    LET st1 == [visited |-> st.visited \cup {packID}, stack |-> st.stack \cup {packID}]
        r == dfsDependencies(rels, Append(path, packID), rels[packID].Dependencies, st1)
    IN  IF packID \notin DOMAIN rels
        THEN [cycle |-> <<>>, visited |-> st1.visited, stack |-> st1.stack \ {packID}]
        ELSE IF r.cycle # <<>> THEN r
        ELSE [cycle |-> <<>>, visited |-> r.visited, stack |-> r.stack \ {packID}]

\* A search that starts every pack's traversal with fresh visited and
\* recursionStack maps.
RECURSIVE detectFrom_FreshSearch(_, _, _, _, _)
detectFrom_FreshSearch(rels, order, st, cycleFound, allCycles) ==
    IF order = <<>> THEN allCycles
    ELSE LET r == dfs(rels, Head(order), <<>>, [visited |-> {}, stack |-> {}])
         IN  IF r.cycle = <<>> \/ r.cycle \in cycleFound
             THEN detectFrom_FreshSearch(rels, Tail(order), st, cycleFound, allCycles)
             ELSE detectFrom_FreshSearch(rels, Tail(order), st, cycleFound \cup {r.cycle},
                                         Append(allCycles, r.cycle))

\* The loop of detectCircularDependencies over the map, in the order given.
\* cycleFound holds the cycle paths already reported (the code keys them by
\* the IDs of the path joined with commas).
RECURSIVE detectFrom(_, _, _, _, _)
detectFrom(rels, order, st, cycleFound, allCycles) ==
    IF order = <<>> THEN allCycles
    ELSE IF Head(order) \in st.visited
    THEN detectFrom(rels, Tail(order), st, cycleFound, allCycles)
    ELSE LET r == dfs(rels, Head(order), <<>>, st)
             st1 == [visited |-> r.visited, stack |-> r.stack]
             cyclePacks == SelectSeq(r.cycle, LAMBDA id : id \in DOMAIN rels)
         IN  IF r.cycle = <<>> \/ r.cycle \in cycleFound
             THEN detectFrom(rels, Tail(order), st1, cycleFound, allCycles)
             ELSE detectFrom(rels, Tail(order), st1, cycleFound \cup {r.cycle},
                             IF cyclePacks # <<>> THEN Append(allCycles, cyclePacks)
                             ELSE allCycles)

\* DependencyAnalyzer.detectCircularDependencies
detectCircularDependencies(rels, order) ==
    detectFrom(rels, order, [visited |-> {}, stack |-> {}], {}, <<>>)

Members(groups) == UNION {Range(groups[i]) : i \in 1..Len(groups)}

\* A classification that takes every pack with dependents for a root.
Category_DependentsMakeRoot(rel) ==
    IF rel.Dependencies = <<>> /\ rel.Dependents = <<>> THEN "standalone"
    ELSE IF rel.Dependents # <<>> THEN "root"
    ELSE "dependent"

\* The branch of groupPacksByRelationships a relationship takes.
Category(rel) ==
    IF rel.Dependencies = <<>> /\ rel.Dependents = <<>> THEN "standalone"
    ELSE IF rel.Dependencies = <<>> THEN "root"
    ELSE "dependent"

\* A grouping that does not set the members of the circular groups aside.
groupPacksByRelationships_KeepCircular(rels, cycleOrder, order) ==
    [RootPacks |-> SelectSeq(order, LAMBDA id : Category(rels[id]) = "root"),
     DependentPacks |-> SelectSeq(order, LAMBDA id : Category(rels[id]) = "dependent"),
     StandalonePacks |-> SelectSeq(order, LAMBDA id : Category(rels[id]) = "standalone"),
     CircularGroups |-> detectCircularDependencies(rels, cycleOrder)]

\* DependencyAnalyzer.groupPacksByRelationships: the circular groups first,
\* then every other pack into one of the three categories, in the order the
\* map is ranged over.  The groups hold the packs by their IDs.
groupPacksByRelationships(rels, cycleOrder, order) ==
    LET CircularGroups == detectCircularDependencies(rels, cycleOrder)
        inCircularGroup == Members(CircularGroups)
        pick(c) == SelectSeq(order, LAMBDA id : id \notin inCircularGroup
                                                 /\ Category(rels[id]) = c)
    IN  [RootPacks |-> pick("root"),
         DependentPacks |-> pick("dependent"),
         StandalonePacks |-> pick("standalone"),
         CircularGroups |-> CircularGroups]

\* DependencyAnalyzer.AnalyzeDependencies over the installed packs, given the
\* pack-UUID dependencies buildPackRelationship reads from each manifest (none
\* for a pack whose manifest cannot be loaded) and the orders of its three
\* ranges over the relationships map.
AnalyzeDependencies(installedPacks, deps, dependentsOrder, cycleOrder, groupOrder) ==
    LET relationships == [id \in installedPacks |-> PackRelationship(id, deps[id], <<>>)]
    IN  groupPacksByRelationships(calculateDependents(relationships, dependentsOrder),
                                  cycleOrder, groupOrder)

PackIDs == {"u1", "u2", "u3"}

\* The dependency declarations of the installed packs S: for every pack a
\* sequence of pack UUIDs, installed or not, at most MaxDeps entries in all.
RECURSIVE SumLen(_, _)
SumLen(f, S) ==
    IF S = {} THEN 0
    ELSE LET x == CHOOSE x \in S : TRUE IN Len(f[x]) + SumLen(f, S \ {x})

Declarations(S) ==
    {f \in [S -> SeqsUpTo(PackIDs, MaxDeps)] : SumLen(f, S) <= MaxDeps}

InitDeps ==
    /\ srv = EmptyServer(Absent)
    /\ clock = 0
    /\ nops = 0
    /\ last = NoCall
    /\ ext = NoExtraction
    /\ \E S \in SUBSET PackIDs \ {{}} : \E f \in Declarations(S) :
          analysis = [phase |-> "listed", installed |-> S, deps |-> f]

\* blockbench list --grouped: one AnalyzeDependencies.
Analyze(dependentsOrder, cycleOrder, groupOrder) ==
    /\ analysis.phase = "listed"
    /\ analysis' = [phase |-> "analyzed", installed |-> analysis.installed,
                    deps |-> analysis.deps,
                    group |-> AnalyzeDependencies(analysis.installed, analysis.deps,
                                                  dependentsOrder, cycleOrder, groupOrder)]
    /\ UNCHANGED <<srv, clock, nops, last, ext>>

NextDeps ==
    \E o1 \in Orders(analysis.installed), o2 \in Orders(analysis.installed),
       o3 \in Orders(analysis.installed) :
        Analyze(o1, o2, o3)

SpecDeps == InitDeps /\ [][NextDeps]_vars

---------------------------------------------------------------------------
(* Properties of the lifecycle.                                            *)

\* What a rollback is to restore: the two world config files and the pack
\* directories under both pack roots.
ConfigsAndPacks(s) ==
    [behavior |-> s.world[WorldBehaviorPacks], resource |-> s.world[WorldResourcePacks],
     bp |-> s.bp, rp |-> s.rp]

IsInstall == last.op = "install"

IsUninstall == last.op = "uninstall"

AddonUUIDs(addon) == {addon[i].uuid : i \in 1..Len(addon)}

Enumerable(s) == ~ListInstalledPacks(s).err

\* C1: a non-dry-run InstallAddon that returns failure leaves the world configs
\* and the pack directories as they were before the call, or its result's
\* error list carries a rollback error.
C1_FailedInstallRestoresOrReports ==
    (IsInstall /\ ~last.options.DryRun /\ last.result.err # "")
    => \/ ConfigsAndPacks(srv) = ConfigsAndPacks(last.pre)
       \/ "Rollback failed" \in Range(last.result.Errors)

\* C2: after a non-dry-run InstallAddon that returns success, ListInstalledPacks
\* returns the UUID of every pack of the addon.
C2_InstalledPacksAreEnumerated ==
    (IsInstall /\ ~last.options.DryRun /\ last.result.Success)
    => /\ Enumerable(srv)
       /\ AddonUUIDs(last.addon) \subseteq InstalledUUIDs(srv)

C2_Witness ==
    /\ IsInstall /\ ~last.options.DryRun /\ last.result.Success
    /\ Len(last.addon) = 2
    /\ AddonUUIDs(last.addon) \cap InstalledUUIDs(last.pre) = {}

\* C3: a SaveWorldConfig, failed ones included, leaves at <path> either the
\* complete previous content or the complete new content.
C3_SaveIsAtomic ==
    last.op = "save"
    => srv.world[last.file] \in {last.pre.world[last.file], JsonFile(last.config)}

\* C5: a dry-run InstallAddon or UninstallAddon, whatever its outcome, leaves
\* the world files, the pack directories and the backup root unchanged.
C5_DryRunMutatesNothing ==
    ((IsInstall \/ IsUninstall) /\ last.options.DryRun) => srv = last.pre

C5_Witness ==
    /\ IsInstall /\ last.options.DryRun /\ last.options.ForceUpdate
    /\ last.result.Success
    /\ last.result.Warnings # <<>>
    /\ Len(last.addon) = 2

\* C6: InstallAddon without force of an addon with a pack whose UUID is
\* enumerated as installed is refused with an error (the conflict error, unless
\* the operator aborted at an earlier prompt), and the server directory and the
\* backup root are unchanged.
C6_ConflictRefused ==
    (IsInstall /\ ~last.options.ForceUpdate
        /\ AddonUUIDs(last.addon) \cap InstalledUUIDs(last.pre) # {})
    => /\ ~last.result.Success
       /\ last.result.err \in {"conflicts", "aborted"}
       /\ last.abortAt = 0 => last.result.err = "conflicts"
       /\ srv = last.pre

C6_Witness ==
    /\ IsInstall /\ ~last.options.ForceUpdate /\ ~last.options.DryRun
    /\ last.result.err = "conflicts"
    /\ AddonUUIDs(last.addon) \cap InstalledUUIDs(last.pre) # {}
    /\ AddonUUIDs(last.addon) \ InstalledUUIDs(last.pre) # {}

\* The entries of the world config of a pack type, as LoadWorldConfig reads them.
Entries(s, type) == LoadWorldConfig(s.world[ConfigFile(type)]).config.entries

Updated(addon, type, e) ==
    IF \E i \in 1..Len(addon) : addon[i].type = type /\ addon[i].uuid = e.pack_id
    THEN LET i == CHOOSE i \in 1..Len(addon) :
                     addon[i].type = type /\ addon[i].uuid = e.pack_id
         IN  PackReference(e.pack_id, addon[i].version)
    ELSE e

RegisteredIn(s, m) == IndexOf(Entries(s, m.type), m.uuid) # 0

\* C7: a forced InstallAddon (no dry run, no I/O fault, no operator abort) of
\* an addon with a pack whose UUID is registered at index i of its world
\* config succeeds; the config afterwards has the entries it had, in the same
\* order, the entry at index i carrying the new version, and one entry for
\* the UUID.
C7_ForcedUpdateKeepsPosition ==
    \A k \in 1..(IF IsInstall THEN Len(last.addon) ELSE 0) :
        LET m == last.addon[k]
            before == Entries(last.pre, m.type)
            after == Entries(srv, m.type)
            i == IndexOf(before, m.uuid)
        IN  (/\ last.options.ForceUpdate /\ ~last.options.DryRun
             /\ last.nofault /\ last.abortAt = 0
             /\ Enumerable(last.pre)
             /\ RegisteredIn(last.pre, m))
            => /\ last.result.Success
               /\ Len(after) >= Len(before)
               /\ after[i] = PackReference(m.uuid, m.version)
               /\ Cardinality({j \in 1..Len(after) : after[j].pack_id = m.uuid}) = 1
               /\ \A j \in 1..Len(before) : after[j] = Updated(last.addon, m.type, before[j])

C7_Witness ==
    /\ IsInstall /\ last.options.ForceUpdate /\ ~last.options.DryRun
    /\ last.result.Success
    /\ \E k \in 1..Len(last.addon) :
          LET m == last.addon[k]
              before == Entries(last.pre, m.type)
              i == IndexOf(before, m.uuid)
          IN  /\ i # 0 /\ i < Len(before)
              /\ before[i].version # m.version
              /\ Entries(srv, m.type)[i].version = m.version

\* The pack-UUID dependencies of the addon's packs that are neither installed
\* nor in the addon.
MissingDependencies(s, addon) ==
    {d \in UNION {Range(addon[i].deps) : i \in 1..Len(addon)} :
        d # "" /\ d \notin InstalledUUIDs(s) /\ d \notin AddonUUIDs(addon)}

WarnedMissing(result) ==
    {w.uuid : w \in {x \in Range(result.Warnings) : x.kind = "missing_dep"}}

\* The UUIDs the text of an error returned by InstallAddon names: the conflict
\* and dependency errors are fixed texts, the others name packs by display name.
UUIDsNamedBy(err) == {}

DirectDependents(s, packID) ==
    {ip \in Range(ListInstalledPacks(s).packs) :
        /\ ip.PackID # packID
        /\ packID \in Range(loadPackManifest(s[PacksDir(ip.Type)], ip.PackID).man.deps)}

HasDirectory(s, ip) == MatchingDirs(s[PacksDir(ip.Type)], ip.PackID) # {}

DirectoryOf(s, ip) ==
    LET root == PacksDir(ip.Type)
    IN  [name |-> FirstMatchingDir(s[root], ip.PackID),
         dir |-> s[root][FirstMatchingDir(s[root], ip.PackID)]]

\* C9: UninstallAddon (no dry run, no I/O fault) of an installed pack A,
\* registered and with its directory on disk, that other installed packs
\* declare as a dependency succeeds; the warnings name every direct dependent;
\* afterwards A is not enumerated and every other pack enumerated before is
\* enumerated still, its config entry and its directory unchanged.
C9_UninstallWithDependents ==
    (IsUninstall /\ ~last.options.DryRun /\ last.nofault /\ Enumerable(last.pre)
        /\ findAddonPack(last.pre, last.identifier, last.options.ByUUID).err = "")
    => LET A == findAddonPack(last.pre, last.identifier, last.options.ByUUID).pack
           others == {ip \in Range(ListInstalledPacks(last.pre).packs) : ip.PackID # A.PackID}
       IN  (HasDirectory(last.pre, A) /\ DirectDependents(last.pre, A.PackID) # {})
           => /\ last.result.Success
              /\ \A ip \in DirectDependents(last.pre, A.PackID) :
                    Warning("dependent", ip.Name, "") \in Range(last.result.Warnings)
              /\ Enumerable(srv)
              /\ A.PackID \notin InstalledUUIDs(srv)
              /\ others = Range(ListInstalledPacks(srv).packs)
              /\ \A ip \in others :
                    /\ Entries(srv, ip.Type) = SelectSeq(Entries(last.pre, ip.Type),
                                                         LAMBDA e : e.pack_id # A.PackID)
                    /\ HasDirectory(last.pre, ip)
                       => HasDirectory(srv, ip)
                          /\ DirectoryOf(srv, ip) = DirectoryOf(last.pre, ip)

C9_Witness ==
    /\ IsUninstall /\ ~last.options.DryRun /\ last.result.Success
    /\ last.identifier = "u1"
    /\ Cardinality(DirectDependents(last.pre, "u1")) = 2
    /\ Len(last.result.Warnings) = 2

\* The warnings of one kind in a result, in the order they were added.
WarningsOf(result, kind) == SelectSeq(result.Warnings, LAMBDA w : w.kind = kind)

\* The installed packs other than A, in the order ListInstalledPacks gives them.
OtherPacks(s, A) ==
    SelectSeq(ListInstalledPacks(s).packs, LAMBDA ip : ip.PackID # A.PackID)

\* C39: in an UninstallAddon (dry run or not) that found its pack A on a
\* server whose installed packs can be listed, the dependency check is not
\* what fails; the result carries exactly one warning tagged as an incomplete
\* dependency check for every other installed pack whose manifest cannot be
\* loaded, whatever the call returns; the packs whose manifest loads are
\* checked still, each dependent on A being named in a warning; and a
\* successful call returns these warnings.
C39_UnloadableManifestsWarned ==
    (IsUninstall /\ Enumerable(last.pre)
        /\ findAddonPack(last.pre, last.identifier, last.options.ByUUID).err = "")
    => LET A == findAddonPack(last.pre, last.identifier, last.options.ByUUID).pack
           others == OtherPacks(last.pre, A)
           unloadable == SelectSeq(others, LAMBDA ip : ~HasDirectory(last.pre, ip))
       IN  /\ "Dependency check failed" \notin Range(last.result.Errors)
           /\ WarningsOf(last.result, "incomplete")
                 = MapSeq(unloadable, LAMBDA ip : Warning("incomplete", ip.Name, ip.PackID))
           /\ \A ip \in DirectDependents(last.pre, A.PackID) :
                 Warning("dependent", ip.Name, "") \in Range(last.result.Warnings)
           /\ (unloadable # <<>> /\ last.nofault /\ ~last.options.DryRun
                    /\ HasDirectory(last.pre, A))
              => last.result.Success

\* A successful removal of a pack that one installed pack depends on while
\* the manifest of another installed pack cannot be loaded.
C39_Witness ==
    /\ IsUninstall /\ ~last.options.DryRun /\ last.result.Success
    /\ WarningsOf(last.result, "incomplete") # <<>>
    /\ WarningsOf(last.result, "dependent") # <<>>

\* The pretty-printed form of a world config file: the file SaveWorldConfig
\* writes for the config LoadWorldConfig reads from it.
PrettyPrinted(content) == JsonFile(LoadWorldConfig(content).config)

\* C13: a successful InstallPack of a pack P registered in neither config, on
\* a world config file that is absent or holds an array, followed by a
\* successful UninstallPack of P's UUID, leaves the file equal to the
\* pretty-printed form of the config before the install.
C13_InstallUninstallRoundTrip ==
    (/\ last.op = "UninstallPack" /\ last.err = ""
     /\ last.prev.op = "InstallPack" /\ last.prev.err = ""
     /\ last.prev.m.uuid = last.packID
     /\ last.packID \notin InstalledUUIDs(last.prev.pre)
     /\ ~last.prev.pre.world[ConfigFile(last.prev.m.type)].nil)
    => srv.world[ConfigFile(last.prev.m.type)]
          = PrettyPrinted(last.prev.pre.world[ConfigFile(last.prev.m.type)])

\* C24: when the directory copy of InstallPack fails and the save that rolls
\* the config back succeeds, InstallPack returns the copy error and the world
\* config file of the pack's type holds the entries it held before the call,
\* with the same versions and in the same order.
C24_CopyFailureRestoresConfig ==
    (/\ last.op = "InstallPack"
     /\ last.env.save = "ok" /\ last.env.copy # "ok" /\ last.env.rbsave = "ok"
     /\ ~LoadWorldConfig(last.pre.world[ConfigFile(last.m.type)]).err)
    => /\ last.err = "copy"
       /\ Entries(srv, last.m.type) = Entries(last.pre, last.m.type)

\* The errors of the pipeline steps in a result's error list, the rollback
\* error left out.
StepErrors(result) ==
    {i \in 1..Len(result.Errors) : result.Errors[i] # "Rollback failed"}

\* C25: an InstallAddon or UninstallAddon call whose result carries no backup
\* (a step before the backup failed or was refused, the backup failed, or the
\* call was a dry run) leaves the world configs and the pack directories as
\* they were; a result lists the failure of one step at most, a rollback
\* error only together with the failure of a step after the backup, and no
\* error when the call succeeded.
C25_NoWriteBeforeBackup ==
    (IsInstall \/ IsUninstall)
    => /\ last.result.Backup = 0 => ConfigsAndPacks(srv) = ConfigsAndPacks(last.pre)
       /\ Cardinality(StepErrors(last.result)) <= 1
       /\ "Rollback failed" \in Range(last.result.Errors)
          => /\ last.result.Backup # 0
             /\ StepErrors(last.result) # {}
       /\ last.result.Success => last.result.Errors = <<>>

C25_Witness ==
    /\ IsUninstall /\ ~last.options.DryRun
    /\ "Backup creation failed" \in Range(last.result.Errors)
    /\ last.result.Backup = 0
    /\ InstalledUUIDs(last.pre) # {}
    /\ ConfigsAndPacks(srv) = ConfigsAndPacks(last.pre)

\* C26: an UninstallAddon call that fails at the uninstallation or at the
\* post-uninstallation validation either leaves the two world configs and the
\* pack directories as they were before the call or lists a rollback failure
\* in its result.
C26_FailedUninstallRestores ==
    (/\ IsUninstall /\ ~last.options.DryRun
     /\ Range(last.result.Errors)
           \cap {"Uninstallation failed", "Post-uninstallation validation failed"} # {})
    => /\ last.result.Backup # 0
       /\ \/ "Rollback failed" \in Range(last.result.Errors)
          \/ ConfigsAndPacks(srv) = ConfigsAndPacks(last.pre)

\* The pack directories and the world configs of a server agree: the UUIDs
\* registered in the two world configs are the header UUIDs of the directories
\* under the two pack roots, every directory has a manifest, and every
\* registered UUID has one directory.
Agree(s) ==
    LET registered == {e.pack_id : e \in Range(Entries(s, "behavior")) \cup Range(Entries(s, "resource"))}
        dirs == {<<"bp", d>> : d \in DOMAIN s.bp} \cup {<<"rp", d>> : d \in DOMAIN s.rp}
        man(x) == IF x[1] = "bp" THEN s.bp[x[2]].man ELSE s.rp[x[2]].man
    IN  /\ ~LoadWorldConfig(s.world[WorldBehaviorPacks]).err
        /\ ~LoadWorldConfig(s.world[WorldResourcePacks]).err
        /\ \A x \in dirs : man(x) # NoManifest /\ man(x).uuid \in registered
        /\ \A u \in registered :
              Cardinality({x \in dirs : man(x) # NoManifest /\ man(x).uuid = u}) = 1

\* C27: a successful InstallAddon or UninstallAddon (no dry run) on a server
\* whose pack directories and world configs agree leaves a server on which
\* they agree.
C27_DirectoriesAndConfigsAgree ==
    (/\ (IsInstall \/ IsUninstall) /\ ~last.options.DryRun /\ last.result.Success
     /\ Agree(last.pre))
    => Agree(srv)

\* C28: the backup an InstallAddon or UninstallAddon call makes has an ID that
\* no backup under the backup root had before the call, and the backups that
\* were there keep their files and their metadata.
C28_BackupIDsAreFresh ==
    ((IsInstall \/ IsUninstall) /\ last.result.Backup # 0)
    => /\ last.result.Backup \notin DOMAIN last.pre.meta
       /\ \A id \in DOMAIN last.pre.meta :
             /\ id \in DOMAIN srv.meta /\ srv.meta[id] = last.pre.meta[id]
             /\ id \in DOMAIN srv.bak /\ srv.bak[id] = last.pre.bak[id]

\* The errors InstallPack, UninstallPack and the two post-validations return.
ApplyErrors ==
    {"unknown pack type", "load", "save", "copy", "remove", "not installed",
     "list", "not found", "still installed"}

\* C29: when the result of an InstallAddon or UninstallAddon call lists a
\* rollback failure, it also lists the failure of the installation, the
\* uninstallation or the post-validation that caused the rollback, after the
\* rollback failure, and the error the call returns is the error of that step.
C29_RollbackErrorDoesNotReplace ==
    ((IsInstall \/ IsUninstall) /\ "Rollback failed" \in Range(last.result.Errors))
    => /\ Len(last.result.Errors) = 2
       /\ last.result.Errors[1] = "Rollback failed"
       /\ last.result.Errors[2] \in
             IF IsInstall
             THEN {"Installation failed", "Post-installation validation failed"}
             ELSE {"Uninstallation failed", "Post-uninstallation validation failed"}
       /\ last.result.err \in ApplyErrors
       /\ ~last.result.Success

C29_Witness ==
    /\ IsInstall
    /\ last.result.Errors = <<"Rollback failed", "Installation failed">>
    /\ last.result.err = "copy"

C29_WitnessUninstall ==
    /\ IsUninstall
    /\ last.result.Errors = <<"Rollback failed", "Post-uninstallation validation failed">>
    /\ last.result.err = "still installed"

\* The type of the config UninstallPack finds the UUID in: the behavior config
\* is looked at first.
RegisteredType(s, packID) ==
    IF IndexOf(Entries(s, "behavior"), packID) # 0 THEN "behavior"
    ELSE IF IndexOf(Entries(s, "resource"), packID) # 0 THEN "resource"
    ELSE "none"

BothConfigsLoad(s) ==
    /\ ~LoadWorldConfig(s.world[WorldBehaviorPacks]).err
    /\ ~LoadWorldConfig(s.world[WorldResourcePacks]).err

\* The removal of the pack directory fails: os.RemoveAll fails or no directory
\* under the pack root has a manifest with the UUID.
RemovalFails(s, type, packID, env) ==
    env.rm # "ok" \/ MatchingDirs(s[PacksDir(type)], packID) = {}

\* C30 as claimed: when UninstallPack has saved the config without the entry
\* and the removal of the pack directory fails, the removal error is returned
\* and the world config files are as before the call; for a UUID in neither
\* config the call fails as not installed and changes nothing.
C30_RemovalFailureAsClaimed ==
    (last.op = "UninstallPack" /\ BothConfigsLoad(last.pre))
    => LET type == RegisteredType(last.pre, last.packID)
       IN  IF type = "none" THEN last.err = "not installed" /\ srv = last.pre
           ELSE (last.env.save = "ok" /\ RemovalFails(last.pre, type, last.packID, last.env))
                => /\ last.err = "remove"
                   /\ srv.world = last.pre.world

\* C30: when UninstallPack has saved the config without the entry, the removal
\* of the pack directory fails and the save that rolls the config back
\* succeeds, the removal error is returned and the world config files are as
\* before the call; when that save fails too, the removal error is returned
\* all the same; for a UUID in neither config the call fails as not
\* installed and changes nothing.
C30_RemovalFailureRestoresConfig ==
    (last.op = "UninstallPack" /\ BothConfigsLoad(last.pre))
    => LET type == RegisteredType(last.pre, last.packID)
       IN  IF type = "none" THEN last.err = "not installed" /\ srv = last.pre
           ELSE (last.env.save = "ok" /\ RemovalFails(last.pre, type, last.packID, last.env))
                => /\ last.err = "remove"
                   /\ last.env.rbsave = "ok" => srv.world = last.pre.world

C30_Witness ==
    /\ last.op = "UninstallPack" /\ BothConfigsLoad(last.pre)
    /\ RegisteredType(last.pre, last.packID) = "resource"
    /\ last.env = UninstallEnv("ok", "fail_partial", "ok")
    /\ last.err = "remove"
    /\ srv.world = last.pre.world
    /\ srv # last.pre

\* The listed paths of backup id are, on server s, as they were on server
\* snapshot.
AsSnapshot(s, id, snapshot) ==
    \A p \in Range(s.meta[id].Files) :
        /\ PathExists(s, p) = PathExists(snapshot, p)
        /\ PathExists(s, p) => ReadPath(s, p) = ReadPath(snapshot, p)

\* C31: wherever an InstallAddon or UninstallAddon call stops after its backup
\* step has returned (at a prompt after the backup, after the packs were
\* written, after a rollback, or at its end), the backup it made has its
\* directory and its metadata file, and a RestoreBackup of its ID that
\* succeeds leaves every listed path as it was when the call began.
C31_BackupSurvivesAbort ==
    ((IsInstall \/ IsUninstall) /\ last.result.Backup # 0)
    => LET id == last.result.Backup
           r == RestoreBackup(srv, id, "ok")
       IN  /\ id \in DOMAIN srv.meta /\ id \in DOMAIN srv.bak
           /\ ~r.err
           /\ AsSnapshot(r.srv, id, last.pre)

\* C38: when the backup of an InstallAddon or UninstallAddon call fails, the
\* call returns the backup error, and under the backup root there is neither
\* a directory nor a metadata file with the ID the call gave its backup.
C38_FailedBackupLeavesNothing ==
    ((IsInstall \/ IsUninstall) /\ "Backup creation failed" \in Range(last.result.Errors))
    => /\ last.result.err = "backup"
       /\ last.result.Backup = 0
       /\ clock \notin DOMAIN srv.bak
       /\ clock \notin DOMAIN srv.meta

\* Every enumerated UUID is in one of the two world configs only.
InOneConfigEach(s) ==
    \A u \in InstalledUUIDs(s) :
        ~(/\ IndexOf(Entries(s, "behavior"), u) # 0
          /\ IndexOf(Entries(s, "resource"), u) # 0)

\* C14: a successful install or uninstall (no dry run) on a server where every
\* enumerated UUID is in one world config only leaves a server where every
\* enumerated UUID is in one world config only.
C14_UUIDInOneConfig ==
    (/\ (IsInstall \/ IsUninstall) /\ ~last.options.DryRun /\ last.result.Success
     /\ Enumerable(last.pre) /\ InOneConfigEach(last.pre))
    => (Enumerable(srv) /\ InOneConfigEach(srv))

\* The positions in the enumeration of the installed packs whose display name,
\* lowered, has the lowered identifier as a run of consecutive characters.
NameMatches(s, identifier) ==
    LET packs == ListInstalledPacks(s).packs
    IN  {k \in 1..Len(packs) :
            \E i \in 1..(Len(ToLower[packs[k].Name]) + 1), j \in 0..Len(ToLower[packs[k].Name]) :
                SubSeq(ToLower[packs[k].Name], i, j) = ToLower[identifier]}

Others(es, packID) ==
    LET keep == {i \in 1..Len(es) : es[i].pack_id # packID}
        kth(k) == CHOOSE i \in keep : Cardinality({j \in keep : j <= i}) = k
    IN  [k \in 1..Cardinality(keep) |-> es[kth(k)]]

\* C19: AddPackToConfig on a config that has the UUID changes the version of
\* the first entry with it and nothing else, on a config without it the result
\* is the config with one entry for the UUID and version added at the end;
\* RemovePackFromConfig returns the entries of another UUID, in their order.
C19_AddAndRemoveKeepTheOthers ==
    /\ last.op = "AddPackToConfig"
       => LET old == last.pre.entries
              new == last.config.entries
          IN  IF \E i \in 1..Len(old) : old[i].pack_id = last.packID
              THEN /\ Len(new) = Len(old)
                   /\ \E i \in 1..Len(old) :
                         /\ old[i].pack_id = last.packID
                         /\ \A j \in 1..(i - 1) : old[j].pack_id # last.packID
                         /\ new[i] = PackReference(last.packID, last.version)
                         /\ \A j \in 1..Len(old) : j # i => new[j] = old[j]
              ELSE /\ Len(new) = Len(old) + 1
                   /\ new[Len(new)] = PackReference(last.packID, last.version)
                   /\ \A j \in 1..Len(old) : new[j] = old[j]
    /\ last.op = "RemovePackFromConfig"
       => /\ \A k \in 1..Len(last.config.entries) : last.config.entries[k].pack_id # last.packID
          /\ last.config.entries = Others(last.pre.entries, last.packID)

C19_Witness ==
    /\ last.op = "AddPackToConfig"
    /\ Len(last.pre.entries) = 3
    /\ last.pre.entries[1].pack_id = last.packID
    /\ last.pre.entries[1].version # last.version
    /\ last.config.entries[1].version = last.version
    /\ last.config.entries[3] = last.pre.entries[3]

\* C20: LoadWorldConfig on a path where no file exists returns a config
\* without entries and no error.
C20_AbsentLoadsEmpty ==
    (last.op = "LoadWorldConfig" /\ last.content.kind = "absent")
    => /\ ~last.err
       /\ Len(last.config.entries) = 0

C20_Witness ==
    /\ last.op = "LoadWorldConfig"
    /\ last.content.kind = "absent"
    /\ last.pre.entries # <<>>
    /\ last.config.entries = <<>>

\* C15: after a successful CreateBackup of a list of paths and any changes
\* to the live paths, a successful RestoreBackup leaves every listed path as it
\* was when the backup was made: absent if it was absent, with the content it
\* had otherwise.
C15_RestoreReturnsSnapshot ==
    (last.op = "restore" /\ ~last.err)
    => \A p \in Range(last.files) :
          /\ PathExists(srv, p) = PathExists(last.snapshot, p)
          /\ PathExists(srv, p) => ReadPath(srv, p) = ReadPath(last.snapshot, p)

---------------------------------------------------------------------------
(* Properties of the archive extraction.                                   *)

HasParentSegment(name) == \E i \in 1..Len(name.segs) : name.segs[i] = ".."

WrittenWithinDest == \A p \in DOMAIN ext.files : IsPrefix(DestDir, p)

C16_SymlinkEntriesRejected ==
    ext.n > 0
    => /\ ext.entry.symlink => ext.failed
       /\ \A p \in DOMAIN ext.files : ext.files[p] # "symlink"

\* The values of the per-file limit the claim of C17 lets a user configure:
\* the default and half of it.
ConfiguredLimits == {maxFileSize, maxFileSize \div 2}

\* The extraction of the entry failed, and would not have failed had the
\* entry been one byte long.
FailedForSize ==
    /\ ext.failed
    /\ ~extractFile(ext.before, [ext.entry EXCEPT !.size = 1], DestDir).err

\* C17: whatever per-file limit is configured, an entry whose decompressed
\* length is at or above the limit makes ExtractArchive fail, and an entry
\* strictly below the limit does not make it fail on the ground of its length.
C17_ConfiguredLimitEnforced ==
    \A limit \in ConfiguredLimits :
        ext.n > 0
        => /\ ext.entry.size >= limit => ext.failed
           /\ ext.entry.size < limit => ~FailedForSize

---------------------------------------------------------------------------
(* Properties of the dependency analysis.                                  *)

Concat(groups) == Flatten(groups)

\* C10: in every DependencyGroup AnalyzeDependencies produces, RootPacks,
\* DependentPacks, StandalonePacks and the members of the CircularGroups
\* together are the installed packs, no pack is in two of the four, and no
\* pack is in two circular groups: every installed pack is listed once.
C10_GroupsPartitionInstalled ==
    analysis.phase = "analyzed"
    => LET g == analysis.group
           all == g.RootPacks \o g.DependentPacks \o g.StandalonePacks \o Concat(g.CircularGroups)
       IN  /\ Range(all) = analysis.installed
           /\ Range(g.RootPacks) \cap Range(g.DependentPacks) = {}
           /\ Range(g.RootPacks) \cap Range(g.StandalonePacks) = {}
           /\ Range(g.DependentPacks) \cap Range(g.StandalonePacks) = {}
           /\ Members(g.CircularGroups)
                 \cap (Range(g.RootPacks) \cup Range(g.DependentPacks)
                       \cup Range(g.StandalonePacks)) = {}
           /\ \A i, j \in 1..Len(g.CircularGroups) :
                 i # j => Range(g.CircularGroups[i]) \cap Range(g.CircularGroups[j]) = {}
           /\ Len(all) = Cardinality(analysis.installed)

C10_Witness ==
    /\ analysis.phase = "analyzed"
    /\ Len(analysis.group.CircularGroups) = 2
    /\ analysis.group.DependentPacks # <<>>

\* The installed packs reached from the packs X by one dependency entry.
DependedOn(S, deps, X) == {b \in S : \E a \in X : b \in Range(deps[a])}

\* The installed packs reached from the packs X by one to n dependency entries.
RECURSIVE ReachedFrom(_, _, _, _)
ReachedFrom(S, deps, X, n) ==
    IF n = 0 THEN {}
    ELSE DependedOn(S, deps, X) \cup ReachedFrom(S, deps, DependedOn(S, deps, X), n - 1)

OnCycle(S, deps, p) == p \in ReachedFrom(S, deps, {p}, Cardinality(S))

Classified(g) ==
    Range(g.RootPacks) \cup Range(g.DependentPacks) \cup Range(g.StandalonePacks)

\* C11: in every DependencyGroup AnalyzeDependencies produces, every installed
\* pack that lies on at least one dependency cycle of the installed packs is
\* a member of a CircularGroup and is in none of RootPacks, DependentPacks and
\* StandalonePacks.
C11_EveryCyclePackIsCircular ==
    analysis.phase = "analyzed"
    => \A p \in analysis.installed :
          OnCycle(analysis.installed, analysis.deps, p)
          => /\ p \in Members(analysis.group.CircularGroups)
             /\ p \notin Classified(analysis.group)

ThreeCycle == ("u1" :> <<"u2">>) @@ ("u2" :> <<"u3">>) @@ ("u3" :> <<"u1">>)

---------------------------------------------------------------------------
(* Properties of the world config store.                                   *)

---------------------------------------------------------------------------
(* Properties of the UUID normalization.                                   *)

\* Lowercase 8-4-4-4-12 form: 36 characters, dashes at the four places, the
\* others lowercase hexadecimal digits.
IsNormalizedUUID(x) ==
    /\ Len(x) = UUIDFullLength
    /\ \A i \in 1..Len(x) : IF i \in {9, 14, 19, 24} THEN x[i] = "-" ELSE x[i] = "a"

\* C22: NormalizeUUID applied to a result of NormalizeUUID returns it
\* unchanged, and NormalizeUUID applied to a UUID in lowercase 8-4-4-4-12 form
\* returns it unchanged.
C22_NormalizeIdempotent ==
    last.op = "NormalizeUUID"
    => /\ nops >= 2 => last.value = last.input
       /\ IsNormalizedUUID(last.input) => last.value = last.input

C22_Witness ==
    /\ last.op = "NormalizeUUID"
    /\ nops = 2
    /\ IsNormalizedUUID(last.input)
    /\ last.value = last.input

---------------------------------------------------------------------------
(* Properties of the manifest validation.                                  *)

NonNegative(version) == \A i \in 1..3 : version[i] >= 0

\* C23: a manifest that ParseManifestFromReader returns and ValidateManifest
\* accepts has format_version 1 or 2, a header UUID that ValidateUUID accepts,
\* at least one module, module UUIDs that differ from one another as strings,
\* and no negative component in the header version, the min-engine version,
\* the module versions and the versions of the dependencies on packs.
C23_AcceptedManifestIsWellFormed ==
    (last.op = "manifest" /\ last.accepted)
    => LET m == last.data.manifest
       IN  /\ m.FormatVersion \in {1, 2}
           /\ ValidateUUID(m.Header.UUID)
           /\ Len(m.Modules) >= 1
           /\ \A i, j \in 1..Len(m.Modules) : i # j => m.Modules[i].UUID # m.Modules[j].UUID
           /\ NonNegative(m.Header.Version)
           /\ NonNegative(m.Header.MinVersion)
           /\ \A i \in 1..Len(m.Modules) : NonNegative(m.Modules[i].Version)
           /\ \A i \in 1..Len(m.Dependencies) :
                 m.Dependencies[i].UUID # <<>> => NonNegative(m.Dependencies[i].Version)

C23_Witness ==
    /\ last.op = "manifest" /\ last.accepted
    /\ Len(last.data.manifest.Modules) = 2
    /\ Len(last.data.manifest.Dependencies) = 1
    /\ last.data.manifest.Header.MinVersion # <<0, 0, 0>>

\* A name that leads out of the directory it is joined to: cleaned, it begins
\* with a parent-directory segment.
Traverses(name) == Clean(name).segs # <<>> /\ Clean(name).segs[1] = ".."

\* C33: an archive with an entry whose name leads out of the destination is
\* rejected by ValidateArchive, and ExtractArchive fails at that entry with
\* nothing of the other entries written under the destination.
C33_TraversalRejectedBeforeAnyWrite ==
    (ext.n > 0 /\ Traverses(ext.entry.name))
    => /\ ext.validation # ""
       /\ ext.failed
       /\ ext.files = FreshDest

\* C36: a manifest that is parsed and validated has the pack type its first
\* module gives: behavior for data or script, resource for resources, unknown
\* for any other type, and the extractor rejects a manifest of unknown type.
C36_FirstModuleGivesPackType ==
    (last.op = "manifest" /\ last.accepted)
    => LET first == last.data.manifest.Modules[1].Type
       IN  /\ last.packType = IF first \in {"data", "script"} THEN "behavior"
                              ELSE IF first = "resources" THEN "resource"
                              ELSE "unknown"
           /\ last.packType = "unknown" <=> last.err # ""

---------------------------------------------------------------------------
(* Properties of the addon extractor.                                      *)

RECURSIVE DepthOf(_)
DepthOf(items) ==
    IF items = <<>> THEN 0
    ELSE LET rest == DepthOf(Tail(items))
         IN  IF Head(items).depth > rest THEN Head(items).depth ELSE rest

\* C34: ExtractAddon of a readable .mcaddon, with no I/O failure, gets through
\* the resolution of the nested .mcpack archives exactly when they are nested
\* at most maxIterations deep, and then leaves no .mcpack file in the scratch
\* directory; nested deeper, it fails with the nesting-depth error.
C34_NestingResolvedUpToTen ==
    (/\ last.op = "ExtractAddon" /\ last.file.ext = ".mcaddon"
     /\ ValidateAddonFile(last.file) = "" /\ last.xenv = ExtractOk)
    => IF DepthOf(last.file.items) <= maxIterations
       THEN /\ last.err \in {"", "no manifest.json files found in extracted addon",
                              "failed to process manifest"}
            /\ last.err = "" => findMcpackFiles(ext.tmp.items) = <<>>
       ELSE /\ last.err = "exceeded maximum nesting depth - possible malformed or malicious archive"
            /\ ~ext.tmp.exists

---------------------------------------------------------------------------
(* Properties of the installer's dependency check.                         *)

\* The normalized form of a UUID of the model.
Normalized(u) == NormalizeUUID(UUIDText[u])

\* C35: the dependency check reports a dependency of an incoming pack exactly
\* when it names a pack UUID whose normalized form is the normalized form of
\* no installed and no incoming pack's UUID; a dependency on a module is never
\* reported.
C35_UnmetDependenciesReported ==
    (last.op = "validateDependencies" /\ ~last.err)
    => LET packs == Range(GetAllPacks(last.addon))
           known == {Normalized(u) : u \in InstalledUUIDs(srv) \cup {m.uuid : m \in packs}}
           unmet(m) == {d \in Range(m.deps) : d # "" /\ Normalized(d) \notin known}
       IN  /\ \A w \in Range(last.missing) : w.uuid # ""
           /\ {<<w.name, w.uuid>> : w \in Range(last.missing)}
                 = UNION {{<<GetDisplayName(m), d>> : d \in unmet(m)} : m \in packs}

---------------------------------------------------------------------------
(* Properties of the classification of the installed packs.                *)

\* The installed packs whose dependency list contains the UUID.
DependentsOf(id) == {q \in analysis.installed : id \in Range(analysis.deps[q])}

====
